---- MODULE Spec2Model ----
(***************************************************************************)
(* A model of the finance analyzer: the expiring cache of                  *)
(* app/utils/cache.py, the memoized entry point NLPService.analyze_text    *)
(* and the extraction pipeline behind it.                                  *)
(***************************************************************************)
EXTENDS Integers, Sequences, FiniteSets, TLC

(***************************************************************************)
(* Bounds of the model.                                                    *)
(***************************************************************************)
\* number of clock advances a behaviour may take
MaxTicks == 2
\* largest max_size the general cache specification is constructed with
MaxCacheSize == 2

(***************************************************************************)
(* Program constants.                                                      *)
(***************************************************************************)
\* settings.cache_ttl, the default_ttl of the global cache
DefaultTTL == 3600
\* @cached_text_analysis(ttl=3600)
AnalysisTTL == 3600

Max(a, b) == IF a >= b THEN a ELSE b

Min(a, b) == IF a <= b THEN a ELSE b

(***************************************************************************)
(* Values.  Python's None, and the opaque values callers store.            *)
(***************************************************************************)
None == [kind |-> "None"]

DataValues == {[kind |-> "data", data |-> d] : d \in {"v1", "v2"}}

\* Optional[int]: <<>> is None, <<n>> is the integer n
NoTTL == <<>>

(***************************************************************************)
(* SimpleCache.  self.cache is a Python dict: a sequence of entries in     *)
(* insertion order, at most one entry per key.                             *)
(***************************************************************************)
CacheKeys(c) == {c[i].key : i \in 1..Len(c)}

Has(c, k) == k \in CacheKeys(c)

IndexOf(c, k) == CHOOSE i \in 1..Len(c) : c[i].key = k

EntryOf(c, k) == c[IndexOf(c, k)]

\* del self.cache[key] for every key of ks
Remove(c, ks) == SelectSeq(c, LAMBDA e : e.key \notin ks)

\* self.cache[key] = entry: an existing key keeps its place in the dict
Store(c, e) ==
    IF Has(c, e.key) THEN [c EXCEPT ![IndexOf(c, e.key)] = e] ELSE Append(c, e)

IsExpiredLate(entry, t) == t >= entry.expires_at

\* SimpleCache._is_expired
IsExpired(entry, t) == t > entry.expires_at

\* SimpleCache._cleanup_expired
CleanupExpired(c, t) == SelectSeq(c, LAMBDA e : ~(t > e.expires_at))

RECURSIVE InsertByCreated(_, _)
InsertByCreated(s, e) ==
    IF s = <<>> THEN <<e>>
    ELSE IF e.created_at < Head(s).created_at THEN <<e>> \o s
    ELSE <<Head(s)>> \o InsertByCreated(Tail(s), e)

RECURSIVE InsertByAccess(_, _)
InsertByAccess(s, e) ==
    IF s = <<>> THEN <<e>>
    ELSE IF e.last_accessed < Head(s).last_accessed THEN <<e>> \o s
    ELSE <<Head(s)>> \o InsertByAccess(Tail(s), e)

RECURSIVE SortedByAccess(_)
SortedByAccess(c) ==
    IF c = <<>> THEN <<>>
    ELSE InsertByAccess(SortedByAccess(SubSeq(c, 1, Len(c) - 1)), c[Len(c)])

\* sorted(self.cache.keys(), key=created_at): a stable sort of the dict order
RECURSIVE SortedByCreated(_)
SortedByCreated(c) ==
    IF c = <<>> THEN <<>>
    ELSE InsertByCreated(SortedByCreated(SubSeq(c, 1, Len(c) - 1)), c[Len(c)])

EntriesToRemoveNoMin(n) == n \div 10

\* entries_to_remove = max(1, len(self.cache) // 10)
EntriesToRemove(n) == Max(1, n \div 10)

\* the keys _evict_oldest deletes
OldestKeys(c, m) ==
    IF Len(c) >= m
    THEN LET s == SortedByCreated(c)
             r == Min(EntriesToRemove(Len(c)), Len(s))
         IN  {s[i].key : i \in 1..r}
    ELSE {}

\* SimpleCache._evict_oldest
EvictOldest(c, m) == Remove(c, OldestKeys(c, m))

\* SimpleCache.get: the value returned
GetValue(c, k, t) ==
    IF ~Has(c, k) THEN None
    ELSE IF IsExpired(EntryOf(c, k), t) THEN None
    ELSE EntryOf(c, k).value

\* a get that gives the entry it reads a new lifetime
GetTableSliding(c, k, t) ==
    IF ~Has(c, k) THEN c
    ELSE IF IsExpired(EntryOf(c, k), t) THEN Remove(c, {k})
    ELSE [c EXCEPT ![IndexOf(c, k)].last_accessed = t,
                   ![IndexOf(c, k)].expires_at =
                       t + (EntryOf(c, k).expires_at - EntryOf(c, k).created_at)]

\* SimpleCache.get: the table it leaves
GetTable(c, k, t) ==
    IF ~Has(c, k) THEN c
    ELSE IF IsExpired(EntryOf(c, k), t) THEN Remove(c, {k})
    ELSE [c EXCEPT ![IndexOf(c, k)].last_accessed = t]

\* if ttl is None: ttl = self.default_ttl
EffectiveTTL(ttl, dttl) == IF ttl = NoTTL THEN dttl ELSE ttl[1]

NewEntry(k, v, ttl, t, dttl) ==
    [key |-> k, value |-> v, created_at |-> t, last_accessed |-> t,
     expires_at |-> t + EffectiveTTL(ttl, dttl)]

\* a set that evicts only to make room for a key the store does not hold
SetTableRoomForNew(c, k, v, ttl, t, m, dttl) ==
    IF Has(CleanupExpired(c, t), k)
    THEN Store(CleanupExpired(c, t), NewEntry(k, v, ttl, t, dttl))
    ELSE Store(EvictOldest(CleanupExpired(c, t), m), NewEntry(k, v, ttl, t, dttl))

\* a set that applies the capacity check before the sweep
SetTableEvictFirst(c, k, v, ttl, t, m, dttl) ==
    Store(CleanupExpired(EvictOldest(c, m), t), NewEntry(k, v, ttl, t, dttl))

\* SimpleCache.set: sweep, capacity eviction, insert
SetTable(c, k, v, ttl, t, m, dttl) ==
    Store(EvictOldest(CleanupExpired(c, t), m), NewEntry(k, v, ttl, t, dttl))

\* SimpleCache.delete
DeleteTable(c, k) == Remove(c, {k})

\* SimpleCache.clear
ClearTable(c) == <<>>

(***************************************************************************)
(* Texts.  A text is a sequence of tokens [w, g]: w is a word of the       *)
(* vocabulary and g says that the word is written without a space after    *)
(* the word before it; otherwise exactly one space separates them.         *)
(*   ishtarayt اشتريت   istalamt استلمت   khodar خضار   wabaadin وبعدين       *)
(*   thumma ثم                                                             *)
(*   n50 50   n30ar ٣٠   n30 30   geneh جنيه   musaddas مسدس   talatin تلاتين *)
(*   n5 5   n0 0   khamsin خمسين   bitalatin بتلاتين                          *)
(* The word blank is the empty string between two consecutive spaces: a    *)
(* text with a blank has a run of spaces, or starts or ends with a space.  *)
(***************************************************************************)
\* number of tokens of the texts the pipeline is applied to
MaxTokens == 4

Words ==
    {"ishtarayt", "istalamt", "khodar", "wabaadin", "thumma", "n50", "n30ar",
     "geneh", "musaddas", "talatin", "karfur"}

\* len() of each word
WLen(w) ==
    CASE w \in {"ishtarayt", "istalamt", "wabaadin", "talatin", "karfur"} -> 6
      [] w \in {"tazkara", "tazkarah", "malabis", "kafeh", "taxi"} -> 5
      [] w \in {"khodar", "geneh", "musaddas", "qahwa", "qahwah"} -> 4
      [] w \in {"thumma", "n50", "n30ar", "n30"} -> 2
      [] w \in {"n5", "n0"} -> 1
      [] w \in {"bitalatin"} -> 7
      [] w \in {"khamsin"} -> 5
      [] w \in {"blank"} -> 0

\* the spaces written before token i
Sep(t, i) == IF i = 1 \/ t[i].g THEN 0 ELSE 1

\* the offset of token i in the string
RECURSIVE PosOf(_, _)
PosOf(t, i) ==
    IF i = 1 THEN 0 ELSE PosOf(t, i - 1) + WLen(t[i - 1].w) + Sep(t, i)

\* len(text)
TextLen(t) == IF t = <<>> THEN 0 ELSE PosOf(t, Len(t)) + WLen(t[Len(t)].w)

\* text[a:b+1].strip(), tokens a..b
Piece(t, a, b) ==
    [i \in 1..(b - a + 1) |->
        IF i = 1 THEN [w |-> t[a].w, g |-> FALSE] ELSE t[a + i - 1]]

\* a word boundary (\b) lies before token i, after token i
BoundaryBefore(t, i) == i = 1 \/ ~t[i].g

BoundaryAfter(t, i) == i = Len(t) \/ ~t[i + 1].g

\* normalize_arabic_text on a word: the Arabic-Indic digits become ASCII,
\* the final teh marbuta of تذكرة and قهوة becomes heh (تذكره, قهوه)
NormWord(w) ==
    CASE w = "n30ar" -> "n30"
      [] w = "tazkara" -> "tazkarah"
      [] w = "qahwa" -> "qahwah"
      [] OTHER -> w

\* normalize_arabic_text(text).lower()
Normalize(t) == [i \in DOMAIN t |-> [w |-> NormWord(t[i].w), g |-> t[i].g]]

\* \d+ on the raw text matches both digit scripts
IsRawDigits(w) == w \in {"n50", "n30ar", "n30", "n5", "n0"}

\* \d+ on the normalized text
IsDigits(w) == w \in {"n50", "n30", "n5", "n0"}

\* float(amount_str)
DigitValue(w) ==
    CASE w = "n50" -> 50
      [] w = "n5" -> 5
      [] w = "n0" -> 0
      [] OTHER -> 30

\* the words of the vocabulary that number_words holds
IsNumberWord(w) == w \in {"talatin", "khamsin"}

NumberWordValue(w) == IF w = "khamsin" THEN 50 ELSE 30

\* the word without one leading ب, ل or ك and without its punctuation
Residual(w) == IF w = "bitalatin" THEN "talatin" ELSE w

\* current_pos when the scan of text.split() reaches token i: the sum of
\* len(word) + 1 over the words before it
RECURSIVE ScanPos(_, _)
ScanPos(t, i) ==
    IF i = 1 THEN 0
    ELSE ScanPos(t, i - 1) + WLen(t[i - 1].w)
         + (IF t[i].g \/ t[i - 1].w = "blank" THEN 0 ELSE 1)

\* the token after the white space (\s*) that follows token i, 0 if none
NextWord(t, i) ==
    LET later == {j \in (i + 1)..Len(t) : t[j].w # "blank"}
    IN  IF later = {} THEN 0 ELSE CHOOSE j \in later : \A k \in later : j <= k

\* the currency words of CURRENCY_PATTERNS
IsCurrency(w) == w = "geneh"

(***************************************************************************)
(* extract_amounts_from_text: candidates [value, pos, tok]; tok is the     *)
(* token the candidate was read from.                                      *)
(***************************************************************************)
BucketWidth == 5

RECURSIVE WordCandidates(_, _)
WordCandidates(t, i) ==
    IF i > Len(t) THEN <<>>
    ELSE (IF BoundaryBefore(t, i) /\ BoundaryAfter(t, i)
             /\ IsNumberWord(Residual(t[i].w))
          THEN <<[value |-> NumberWordValue(Residual(t[i].w)),
                  pos |-> ScanPos(t, i), tok |-> i]>>
          ELSE <<>>) \o WordCandidates(t, i + 1)

RECURSIVE CurrencyCandidates(_, _)
CurrencyCandidates(t, i) ==
    IF i > Len(t) THEN <<>>
    ELSE (IF IsDigits(t[i].w) /\ DigitValue(t[i].w) > 0 /\ NextWord(t, i) # 0
             /\ IsCurrency(t[Max(NextWord(t, i), 1)].w)
          THEN <<[value |-> DigitValue(t[i].w), pos |-> PosOf(t, i), tok |-> i]>>
          ELSE <<>>) \o CurrencyCandidates(t, i + 1)

RECURSIVE NumberCandidates(_, _)
NumberCandidates(t, i) ==
    IF i > Len(t) THEN <<>>
    ELSE (IF IsDigits(t[i].w) /\ DigitValue(t[i].w) > 0
          THEN <<[value |-> DigitValue(t[i].w), pos |-> PosOf(t, i), tok |-> i]>>
          ELSE <<>>) \o NumberCandidates(t, i + 1)

RECURSIVE InsertByPos(_, _)
InsertByPos(s, e) ==
    IF s = <<>> THEN <<e>>
    ELSE IF e.pos < Head(s).pos THEN <<e>> \o s
    ELSE <<Head(s)>> \o InsertByPos(Tail(s), e)

\* the candidates left in the order the scans found them
Unsorted(s) == s

\* sorted(amounts, key=lambda x: x[1])
RECURSIVE SortedByPos(_)
SortedByPos(s) ==
    IF s = <<>> THEN <<>>
    ELSE InsertByPos(SortedByPos(SubSeq(s, 1, Len(s) - 1)), s[Len(s)])

\* the first candidate of every bucket pos // 5
RECURSIVE UniqueByBucket(_, _)
UniqueByBucket(s, seen) ==
    IF s = <<>> THEN <<>>
    ELSE IF (Head(s).pos \div BucketWidth) \in seen THEN UniqueByBucket(Tail(s), seen)
    ELSE <<Head(s)>> \o UniqueByBucket(Tail(s), seen \cup {Head(s).pos \div BucketWidth})

ExtractAmounts(text) ==
    LET t == Normalize(text)
    IN  UniqueByBucket(
            SortedByPos(WordCandidates(t, 1) \o CurrencyCandidates(t, 1)
                        \o NumberCandidates(t, 1)), {})

(***************************************************************************)
(* split_text_into_segments.  A segment is [text, at]: at is the token of  *)
(* the whole text the segment starts at.                                   *)
(***************************************************************************)
\* len(segment) > 5
ShortLen == 5

IsConnector(w) == w \in {"wabaadin", "thumma"}

Seg(t, a, b) == [text |-> Piece(t, a, b), at |-> a]

\* re.split on the connectors: the runs of tokens between them
RECURSIVE ConnectorPieces(_, _, _)
ConnectorPieces(t, i, start) ==
    IF i > Len(t) THEN (IF start <= Len(t) THEN <<Seg(t, start, Len(t))>> ELSE <<>>)
    ELSE IF IsConnector(t[i].w)
    THEN (IF start < i THEN <<Seg(t, start, i - 1)>> ELSE <<>>)
         \o ConnectorPieces(t, i + 1, i + 1)
    ELSE ConnectorPieces(t, i + 1, start)

\* a filter that keeps the short pieces
KeepAll(segs) == segs

LongEnough(segs) == SelectSeq(segs, LAMBDA s : TextLen(s.text) > ShortLen)

\* the tokens at which a match of \d+\s*جنيه ends
RECURSIVE AmountEnds(_, _)
AmountEnds(t, i) ==
    IF i > Len(t) THEN <<>>
    ELSE (IF i > 1 /\ IsCurrency(t[i].w) /\ IsRawDigits(t[Max(i - 1, 1)].w)
          THEN <<i>> ELSE <<>>) \o AmountEnds(t, i + 1)

\* pieces cut after every amount, the last one included
RECURSIVE AmountPiecesAfterEvery(_, _, _)
AmountPiecesAfterEvery(t, ends, start) ==
    IF ends = <<>>
    THEN (IF start <= Len(t) THEN <<Seg(t, start, Len(t))>> ELSE <<>>)
    ELSE <<Seg(t, start, Head(ends))>>
         \o AmountPiecesAfterEvery(t, Tail(ends), Head(ends) + 1)

\* the pieces cut after every amount but the last
RECURSIVE AmountPieces(_, _, _)
AmountPieces(t, ends, start) ==
    IF Len(ends) <= 1
    THEN (IF start <= Len(t) THEN <<Seg(t, start, Len(t))>> ELSE <<>>)
    ELSE <<Seg(t, start, Head(ends))>> \o AmountPieces(t, Tail(ends), Head(ends) + 1)

\* a splitter without the final fallback
SplitSegmentsNoFallback(t) ==
    LET primary == LongEnough(ConnectorPieces(t, 1, 1))
        ends == AmountEnds(t, 1)
    IN  IF Len(primary) <= 1 /\ Len(ends) > 1
        THEN LongEnough(AmountPieces(t, ends, 1))
        ELSE primary

\* a splitter whose final fallback applies only when nothing is left
SplitSegmentsKeepSingle(t) ==
    LET primary == LongEnough(ConnectorPieces(t, 1, 1))
        ends == AmountEnds(t, 1)
        second == IF Len(primary) <= 1 /\ Len(ends) > 1
                  THEN LongEnough(AmountPieces(t, ends, 1))
                  ELSE primary
    IN  IF second = <<>> THEN <<[text |-> t, at |-> 1]>> ELSE second

SplitSegments(t) ==
    LET primary == LongEnough(ConnectorPieces(t, 1, 1))
        ends == AmountEnds(t, 1)
        second == IF Len(primary) <= 1 /\ Len(ends) > 1
                  THEN LongEnough(AmountPieces(t, ends, 1))
                  ELSE primary
    IN  IF Len(second) <= 1 THEN <<[text |-> t, at |-> 1]>> ELSE second

(***************************************************************************)
(* ContentFilter.                                                          *)
(***************************************************************************)
IsProhibitedTerm(w) == w = "musaddas"

\* check_content: no prohibited term stands as a word of its own
IsSafe(t) ==
    ~\E i \in 1..Len(t) :
        IsProhibitedTerm(t[i].w) /\ BoundaryBefore(t, i) /\ BoundaryAfter(t, i)

IsFinancialIndicator(w) == w \in {"ishtarayt", "geneh", "karfur", "taxi"}

\* is_financial_content
IsFinancialContent(t) == \E i \in 1..Len(t) : IsFinancialIndicator(t[i].w)

\* the gate of analyze_text: filter_text, then is_financial_content
GateReason(t) ==
    IF ~IsSafe(t) THEN "prohibited_content"
    ELSE IF ~IsFinancialContent(t) THEN "non_financial_content"
    ELSE "none"

(***************************************************************************)
(* TransactionExtractor.  An optional value is <<>> (None) or <<v>>.       *)
(***************************************************************************)
HasWord(t, ws) == \E i \in 1..Len(t) : t[i].w \in ws

\* the merchant names of places_map that the vocabulary holds
PlaceWords == {"karfur"}

\* TransactionExtractor.extract_place
ExtractPlace(t) ==
    IF HasWord(t, PlaceWords)
    THEN <<t[CHOOSE i \in 1..Len(t) : t[i].w \in PlaceWords
               /\ \A j \in 1..(i - 1) : t[j].w \notin PlaceWords].w>>
    ELSE <<>>

\* the tokens written together from token i on: what (\w+) captures
RECURSIVE RunFrom(_, _)
RunFrom(t, i) ==
    <<t[i].w>> \o (IF i < Len(t) /\ t[Min(i + 1, Len(t))].g THEN RunFrom(t, i + 1) ELSE <<>>)

\* a match of (?:اشتريت|شريت|جبت|اخدت)\s+(\w+) starts at token i
ItemMatch(t, i) == t[i].w = "ishtarayt" /\ i < Len(t) /\ ~t[Min(i + 1, Len(t))].g

\* the words of "excluded" that the vocabulary holds
ExcludedItems == {<<"karfur">>}

\* what re.search captures for the pattern: the word after its first match
PotentialItem(t) ==
    RunFrom(t, 1 + CHOOSE i \in 1..Len(t) :
                    ItemMatch(t, i) /\ \A j \in 1..(i - 1) : ~ItemMatch(t, j))

\* TransactionExtractor.extract_item
ExtractItem(t) ==
    IF HasWord(t, {"qahwa"}) THEN <<"qahwa">>
    ELSE IF HasWord(t, {"tazkara"}) THEN <<"tazkara">>
    ELSE IF (\E i \in 1..Len(t) : ItemMatch(t, i)) /\ PotentialItem(t) \notin ExcludedItems
    THEN PotentialItem(t)
    ELSE <<>>

\* TransactionExtractor.determine_transaction_type
TransactionType(t) == IF HasWord(t, {"istalamt"}) THEN "income" ELSE "expense"

\* category_map, in the order of the dict: the categories, and per category
\* the keywords and the places that the vocabulary holds, spelled as the
\* source spells them
Categories ==
    <<"food", "transport", "shopping", "income", "clothes", "bills",
      "entertainment", "health">>

CategoryKeywords(c) ==
    CASE c = "food" -> {"khodar", "qahwa", "kafeh"}
      [] c = "transport" -> {"tazkara", "taxi"}
      [] c = "clothes" -> {"malabis"}
      [] OTHER -> {}

CategoryPlaces(c) ==
    CASE c = "food" -> {"karfur"}
      [] c = "shopping" -> {"karfur"}
      [] OTHER -> {}

\* the first category of category_map among those that match
FirstCategory(matching) ==
    Categories[CHOOSE i \in DOMAIN Categories :
                  /\ Categories[i] \in matching
                  /\ \A j \in 1..(i - 1) : Categories[j] \notin matching]

\* a classifier that consults the keywords before the merchant
ClassifyKeywordFirst(t, place) ==
    LET n == Normalize(t)
        ByPlace == {Categories[i] : i \in {j \in DOMAIN Categories :
                                             place # <<>> /\ place[1] \in CategoryPlaces(Categories[j])}}
        ByKeyword == {Categories[i] : i \in {j \in DOMAIN Categories :
                                               HasWord(n, CategoryKeywords(Categories[j]))}}
    IN  IF HasWord(n, {"tazkara"}) THEN "transport"
        ELSE IF HasWord(n, {"qahwa", "kafeh"}) THEN "food"
        ELSE IF ByKeyword # {} THEN FirstCategory(ByKeyword)
        ELSE IF ByPlace # {} THEN FirstCategory(ByPlace)
        ELSE "other"

\* CategoryClassifier.classify: the tests are made on the normalized text
Classify(t, place) ==
    LET n == Normalize(t)
        ByPlace == {Categories[i] : i \in {j \in DOMAIN Categories :
                                             place # <<>> /\ place[1] \in CategoryPlaces(Categories[j])}}
        ByKeyword == {Categories[i] : i \in {j \in DOMAIN Categories :
                                               HasWord(n, CategoryKeywords(Categories[j]))}}
    IN  IF HasWord(n, {"tazkara"}) THEN "transport"
        ELSE IF HasWord(n, {"qahwa", "kafeh"}) THEN "food"
        ELSE IF ByPlace # {} THEN FirstCategory(ByPlace)
        ELSE IF ByKeyword # {} THEN FirstCategory(ByKeyword)
        ELSE "other"

\* a score without the cap
ConfidenceUncapped(t, amount, place, item) ==
    5 + (IF amount # <<>> THEN 3 ELSE 0) + (IF place # <<>> THEN 1 ELSE 0)
      + (IF item # <<>> THEN 1 ELSE 0)
      + (IF HasWord(t, {"ishtarayt", "istalamt"}) THEN 1 ELSE 0)

\* TransactionExtractor._calculate_confidence, in tenths
Confidence(t, amount, place, item) ==
    Min(10, 5 + (IF amount # <<>> THEN 3 ELSE 0) + (IF place # <<>> THEN 1 ELSE 0)
              + (IF item # <<>> THEN 1 ELSE 0)
              + (IF HasWord(t, {"ishtarayt", "istalamt"}) THEN 1 ELSE 0))

\* TransactionExtractor.extract_transaction
ExtractTransaction(t, amount) ==
    LET found == ExtractAmounts(t)
        amt == IF amount # <<>> THEN amount
               ELSE IF found # <<>> THEN <<found[1].value>> ELSE <<>>
        place == ExtractPlace(t)
        item == ExtractItem(t)
    IN  [amount |-> amt, transaction_type |-> TransactionType(t),
         category |-> Classify(t, place), item |-> item, merchant |-> place,
         confidence_score |-> Confidence(t, amt, place, item), extracted_from |-> t]

(***************************************************************************)
(* NLPService.                                                             *)
(***************************************************************************)
\* NLPService._is_transaction_segment
IsTransactionSegment(t) ==
    HasWord(t, {"ishtarayt", "istalamt"}) \/ ExtractAmounts(t) # <<>>

\* NLPService._indicates_spending
IndicatesSpending(t) == HasWord(t, {"ishtarayt"})

\* a test that keeps every built transaction
IsMeaningfulAlways(tr) == TRUE

\* NLPService._is_meaningful_transaction
IsMeaningfulTransaction(tr) == tr.amount # <<>> \/ tr.merchant # <<>> \/ tr.item # <<>>

\* for amt, pos in all_amounts: if amt not in used_amounts: ... break
RECURSIVE FirstUnused(_, _)
FirstUnused(all, used) ==
    IF all = <<>> THEN <<>>
    ELSE IF Head(all).value \notin used THEN <<Head(all)>>
    ELSE FirstUnused(Tail(all), used)

\* an assignment that drops a local amount whose value was used before
SegmentAmountOncePerValue(seg, all, used) ==
    LET local == ExtractAmounts(seg.text)
    IN  IF local # <<>> /\ local[1].value \notin used
        THEN [amount |-> <<local[1].value>>, used |-> used \cup {local[1].value},
              mention |-> <<seg.at + local[1].tok - 1>>, local |-> TRUE]
        ELSE [amount |-> <<>>, used |-> used, mention |-> <<>>, local |-> FALSE]

\* the amount of a segment: its first local amount, else a claimed one.
\* [amount, used, mention]: mention is the token of the whole text read.
SegmentAmount(seg, all, used) ==
    LET local == ExtractAmounts(seg.text)
        claim == IF IndicatesSpending(seg.text) THEN FirstUnused(all, used) ELSE <<>>
    IN  IF local # <<>>
        THEN [amount |-> <<local[1].value>>, used |-> used \cup {local[1].value},
              mention |-> <<seg.at + local[1].tok - 1>>, local |-> TRUE]
        ELSE IF claim # <<>>
        THEN [amount |-> <<claim[1].value>>, used |-> used \cup {claim[1].value},
              mention |-> <<claim[1].tok>>, local |-> FALSE]
        ELSE [amount |-> <<>>, used |-> used, mention |-> <<>>, local |-> FALSE]

\* what the loop decided for a segment it processed: the amount, the token
\* of the whole text it was read from, and whether the segment held it
Assignment(seg, a) ==
    [at |-> seg.at, amount |-> a.amount, mention |-> a.mention, local |-> a.local]

\* one iteration without the re-check of the segment
ProcessSegmentNoRecheck(st, seg, all) ==
    IF ~IsTransactionSegment(seg.text) THEN st
    ELSE LET a == SegmentAmount(seg, all, st.used_amounts)
             tr == ExtractTransaction(seg.text, a.amount)
         IN  IF IsMeaningfulTransaction(tr)
             THEN [transactions |-> Append(st.transactions, tr),
                   used_amounts |-> a.used,
                   mentions |-> Append(st.mentions, a.mention),
                   sources |-> Append(st.sources, seg.at),
                   skipped |-> st.skipped,
                   assigned |-> Append(st.assigned, Assignment(seg, a))]
             ELSE [st EXCEPT !.used_amounts = a.used,
                             !.assigned = Append(@, Assignment(seg, a))]

\* one iteration of "for segment in segments".  st holds transactions and
\* used_amounts, and what the run did: mentions[i] is the mention behind
\* transactions[i], sources[i] the segment it was built from, skipped the
\* segments the re-check rejected, assigned the amount given to every
\* segment that reached the assignment.
ProcessSegment(st, seg, all) ==
    IF ~IsSafe(seg.text) THEN [st EXCEPT !.skipped = @ \cup {seg.at}]
    ELSE IF ~IsTransactionSegment(seg.text) THEN st
    ELSE LET a == SegmentAmount(seg, all, st.used_amounts)
             tr == ExtractTransaction(seg.text, a.amount)
         IN  IF IsMeaningfulTransaction(tr)
             THEN [transactions |-> Append(st.transactions, tr),
                   used_amounts |-> a.used,
                   mentions |-> Append(st.mentions, a.mention),
                   sources |-> Append(st.sources, seg.at),
                   skipped |-> st.skipped,
                   assigned |-> Append(st.assigned, Assignment(seg, a))]
             ELSE [st EXCEPT !.used_amounts = a.used,
                             !.assigned = Append(@, Assignment(seg, a))]

RECURSIVE ProcessSegments(_, _, _)
ProcessSegments(st, segs, all) ==
    IF segs = <<>> THEN st
    ELSE ProcessSegments(ProcessSegment(st, Head(segs), all), Tail(segs), all)

\* "... and t.amount": the amount is there and is not 0
Truthy(amount) == amount # <<>> /\ amount[1] # 0

RECURSIVE SumAmounts(_, _)
SumAmounts(trs, type) ==
    IF trs = <<>> THEN 0
    ELSE (IF Head(trs).transaction_type = type /\ Truthy(Head(trs).amount)
          THEN Head(trs).amount[1] ELSE 0) + SumAmounts(Tail(trs), type)

RECURSIVE SumCategory(_, _)
SumCategory(trs, cat) ==
    IF trs = <<>> THEN 0
    ELSE (IF Head(trs).category = cat /\ Truthy(Head(trs).amount)
          THEN Head(trs).amount[1] ELSE 0) + SumCategory(Tail(trs), cat)

\* a summary that gives every category of the list a key
CalculateSummaryAllCategories(trs) ==
    [total_transactions |-> Len(trs),
     total_income |-> SumAmounts(trs, "income"),
     total_expenses |-> SumAmounts(trs, "expense"),
     net_amount |-> SumAmounts(trs, "income") - SumAmounts(trs, "expense"),
     categories |-> [c \in {trs[i].category : i \in DOMAIN trs} |-> SumCategory(trs, c)]]

\* NLPService._calculate_summary
CalculateSummary(trs) ==
    LET cats == {trs[i].category : i \in {j \in 1..Len(trs) : Truthy(trs[j].amount)}}
    IN  [total_transactions |-> Len(trs),
         total_income |-> SumAmounts(trs, "income"),
         total_expenses |-> SumAmounts(trs, "expense"),
         net_amount |-> SumAmounts(trs, "income") - SumAmounts(trs, "expense"),
         categories |-> [c \in cats |-> SumCategory(trs, c)]]

\* detect_language: every letter of the vocabulary is Arabic
DetectLanguage(t) ==
    IF \A i \in 1..Len(t) : IsRawDigits(t[i].w) THEN "unknown" ELSE "ar"

\* except ValidationError: raise / except Exception: raise NLPProcessingError
ConvertException(kind) ==
    IF kind = "ValidationError" THEN "ValidationError" ELSE "NLPProcessingError"

EmptyRun == [transactions |-> <<>>, used_amounts |-> {}, mentions |-> <<>>,
             sources |-> <<>>, skipped |-> {}, assigned |-> <<>>]

\* the body of NLPService.analyze_text.  fault is an exception raised inside
\* the try block by the runtime ("none" when there is none).
AnalyzeBody(t, language, fault) ==
    LET run == ProcessSegments(EmptyRun, SplitSegments(t), ExtractAmounts(t))
        lang == IF language = "auto" THEN DetectLanguage(t) ELSE language
    IN  IF GateReason(t) # "none"
        THEN [outcome |-> ConvertException("ValidationError"),
              reason |-> GateReason(t), value |-> None, run |-> EmptyRun]
        ELSE IF fault # "none"
        THEN [outcome |-> ConvertException(fault), reason |-> "none",
              value |-> None, run |-> run]
        ELSE [outcome |-> "ok", reason |-> "none",
              value |-> [kind |-> "AnalysisResult",
                         transactions |-> run.transactions,
                         summary |-> CalculateSummary(run.transactions),
                         processing_time_ms |-> 0,
                         language_detected |-> lang],
              run |-> run]

(***************************************************************************)
(* The memoized entry point: cached_text_analysis wrapped around the       *)
(* method analyze_text, and the calls of app/api/endpoints.py.             *)
(***************************************************************************)
\* the NLPService instance the method is called on
Self == [kind |-> "object", repr |-> <<"<NLPService object>">>]

StrValue(t) == [kind |-> "str", text |-> t]

\* the characters of a text, space by space and word by word
RECURSIVE Chars(_, _)
Chars(t, i) ==
    IF i > Len(t) THEN <<>>
    ELSE (IF Sep(t, i) = 1 THEN <<" ">> ELSE <<>>) \o <<t[i].w>> \o Chars(t, i + 1)

\* f"{x}"
Format(x) == IF x.kind = "str" THEN Chars(x.text, 1) ELSE x.repr

\* x[:30] is defined
Subscriptable(x) == x.kind = "str"

\* the two call sites: analyze_text(text, language) and analyze_text(text)
CallStyles == {"positional", "default"}

Languages == {"ar", "en", "auto"}

\* the positional arguments the bound method hands to the wrapper
Positional(call) ==
    <<Self, StrValue(call.text)>>
    \o (IF call.style = "positional" THEN <<call.language>> ELSE <<>>)

\* the keyword arguments of the call: neither call site passes any
Keywords(call) == [n \in {} |-> "ar"]

\* wrapper(text, *args, **kwargs): text is the first positional argument
WrapperText(call) == Positional(call)[1]

\* kwargs.get('language', 'ar')
WrapperLanguage(call) ==
    IF "language" \in DOMAIN Keywords(call) THEN Keywords(call)["language"] ELSE "ar"

\* analyze_text(self, text, language="ar"): the language the body runs with
BodyLanguage(call) ==
    IF Len(Positional(call)) >= 3 THEN Positional(call)[3] ELSE "ar"

\* cache_key_for_text: the digest of f"{text}:{language}", one per content
CacheKeyForText(text, language) == <<"text_analysis:">> \o text \o <<":", language>>

WrapperKey(call) == CacheKeyForText(Format(WrapperText(call)), WrapperLanguage(call))

\* the entries _evict_oldest deletes, and the times of those it keeps
Evicted(c, m) ==
    {[key |-> k, created_at |-> EntryOf(c, k).created_at,
      last_accessed |-> EntryOf(c, k).last_accessed] : k \in OldestKeys(c, m)}

Kept(c, m) ==
    {[created_at |-> EntryOf(c, k).created_at,
      last_accessed |-> EntryOf(c, k).last_accessed] :
        k \in CacheKeys(c) \ OldestKeys(c, m)}

\* cached_text_analysis.wrapper: the table it leaves, how the call ends
\* (outcome, reason, value), and what it did: hit the cache, ran the body
\* (run), stored the result (expired keys swept, n entries found after the
\* sweep, evicted).
\* r is what "await func(text, *args, **kwargs)" comes back with.
WrapperCall(c, call, r, t, m, dttl) ==
    LET key == WrapperKey(call)
        cached == GetValue(c, key, t)
        c1 == GetTable(c, key, t)
        swept == CleanupExpired(c1, t)
    IN  IF cached # None
        THEN [table |-> c1, hit |-> TRUE, ran |-> FALSE, reason |-> "none",
              outcome |-> IF Subscriptable(WrapperText(call)) THEN "ok" ELSE "TypeError",
              value |-> IF Subscriptable(WrapperText(call)) THEN cached ELSE None,
              n |-> 0, evicted |-> {}, kept |-> {}, stored |-> FALSE,
              expired |-> {},
              run |-> EmptyRun]
        ELSE IF r.outcome # "ok"
        THEN [table |-> c1, hit |-> FALSE, ran |-> TRUE, reason |-> r.reason,
              outcome |-> r.outcome, value |-> None,
              n |-> 0, evicted |-> {}, kept |-> {}, stored |-> FALSE,
              expired |-> {},
              run |-> r.run]
        ELSE [table |-> SetTable(c1, key, r.value, <<AnalysisTTL>>, t, m, dttl),
              hit |-> FALSE, ran |-> TRUE, reason |-> "none",
              outcome |-> "ok", value |-> r.value,
              n |-> Len(swept), evicted |-> Evicted(swept, m),
              kept |-> Kept(swept, m), stored |-> TRUE,
              expired |-> CacheKeys(c1) \ CacheKeys(swept),
              run |-> r.run]

(***************************************************************************)
(* State.                                                                  *)
(***************************************************************************)
VARIABLES
    cache,      \* SimpleCache.cache of the global cache instance
    max_size,   \* SimpleCache.max_size
    now,        \* time.time()
    ret,        \* the operation just made: its arguments and what it returned
    written,    \* per key, what the callers stored and did not remove since
    input,      \* the text under analysis (pipeline specification)
    pc,         \* per coroutine, the statement it stands at (event loop)
    frame,      \* per coroutine, its local variables (event loop)
    running,    \* the coroutine the event loop is running (event loop)
    requests    \* RateLimitMiddleware.requests of the global rate limiter

vars ==
    <<cache, max_size, now, ret, written, input, pc, frame, running, requests>>

W(w) == [w |-> w, g |-> FALSE]

\* the texts the general specification analyzes:
\* "50 جنيه", "مسدس 50 جنيه", "خضار"
SampleTexts ==
    {<<W("n50"), W("geneh")>>, <<W("musaddas"), W("n50"), W("geneh")>>,
     <<W("khodar")>>}

\* transcription_service: f"transcription:{content_hash}"
TranscriptionKey(h) == <<"transcription:", h>>

\* the key of the other user of the cache
OtherKeys == {TranscriptionKey("h1")}

\* analyze_text(text, language) with any language, analyze_text(text) with
\* the default one
Calls(texts) ==
    [text : texts, language : Languages, style : {"positional"}]
    \cup [text : texts, language : {"ar"}, style : {"default"}]

AnalysisKeys == {WrapperKey(call) : call \in Calls(SampleTexts)}

TTLs == {NoTTL, <<1>>}

NoRet ==
    [op |-> "none", key |-> <<>>, value |-> None, outcome |-> "none",
     reason |-> "none", text |-> <<>>, language |-> "none", ran |-> FALSE,
     hit |-> FALSE, stored |-> FALSE, evicted |-> {}, kept |-> {}, n |-> 0,
     expired |-> {}, at |-> 0,
     run |-> EmptyRun]

\* the clock advances by a second or by a cache lifetime
TicksTaken(t) == (t \div DefaultTTL) + (t % DefaultTTL)

\* written after time has passed: what has outlived its ttl is forgotten
Forget(w, t) ==
    [k \in DOMAIN w |-> IF w[k] # <<>> /\ t > w[k][1].expires_at THEN <<>> ELSE w[k]]

\* written after a caller stored v under k for eff seconds, by = the analyze
\* call the value was computed for, and the store evicted some entries
Remember(w, k, v, eff, t, by, evicted) ==
    [x \in DOMAIN w |->
        IF x = k THEN <<[value |-> v, expires_at |-> t + eff, by |-> by]>>
        ELSE IF x \in {e.key : e \in evicted} THEN <<>>
        ELSE w[x]]

Coroutines == {"t1", "t2"}

\* the client addresses requests come from
Clients == {"ip1", "ip2"}

\* self.requests = {}: no client has a list yet (requests.get(ip, []))
NoRequests == [c \in Clients |-> <<>>]

NoFrame ==
    [kind |-> "none", key |-> <<>>, text |-> <<>>, entry |-> <<>>, value |-> None,
     before |-> <<>>]

\* the event loop is not modelled: no coroutine exists
NoLoop ==
    /\ pc = [t \in Coroutines |-> "idle"]
    /\ frame = [t \in Coroutines |-> NoFrame]
    /\ running = "none"

Init ==
    /\ cache = <<>>
    /\ max_size \in 0..MaxCacheSize
    /\ now = 0
    /\ ret = NoRet
    /\ written = [k \in OtherKeys \cup AnalysisKeys |-> <<>>]
    /\ input = <<>>
    /\ NoLoop
    /\ requests = NoRequests

Tick ==
    /\ \E d \in {1, DefaultTTL} :
          /\ TicksTaken(now) < MaxTicks
          /\ d = DefaultTTL => now % DefaultTTL = 0
          /\ now' = now + d
    /\ written' = Forget(written, now')
    /\ ret' = NoRet
    /\ UNCHANGED <<cache, max_size, input, pc, frame, running, requests>>

Get(k) ==
    /\ cache' = GetTable(cache, k, now)
    /\ ret' = [NoRet EXCEPT !.op = "get", !.key = k, !.at = now,
                            !.hit = Has(cache, k),
                            !.value = GetValue(cache, k, now)]
    /\ UNCHANGED <<max_size, now, written, input, pc, frame, running, requests>>

Set(k, v, ttl) ==
    LET swept == CleanupExpired(cache, now)
        evicted == Evicted(swept, max_size)
    IN  /\ cache' = SetTable(cache, k, v, ttl, now, max_size, DefaultTTL)
        /\ ret' = [NoRet EXCEPT !.op = "set", !.key = k, !.at = now, !.value = v,
                                !.stored = TRUE, !.n = Len(swept),
                                !.evicted = evicted,
                                !.kept = Kept(swept, max_size),
                                !.expired = CacheKeys(cache) \ CacheKeys(swept)]
        /\ written' = Remember(written, k, v, EffectiveTTL(ttl, DefaultTTL), now,
                               <<>>, evicted)
        /\ UNCHANGED <<max_size, now, input, pc, frame, running, requests>>

Delete(k) ==
    /\ cache' = DeleteTable(cache, k)
    /\ ret' = [NoRet EXCEPT !.op = "delete", !.key = k, !.at = now,
                            !.hit = Has(cache, k)]
    /\ written' = [written EXCEPT ![k] = <<>>]
    /\ UNCHANGED <<max_size, now, input, pc, frame, running, requests>>

Clear ==
    /\ cache' = ClearTable(cache)
    /\ ret' = [NoRet EXCEPT !.op = "clear", !.at = now]
    /\ written' = [k \in DOMAIN written |-> <<>>]
    /\ UNCHANGED <<max_size, now, input, pc, frame, running, requests>>

\* the call has come back with r: what the caller and the store are left with
Returned(call, r) ==
    LET key == WrapperKey(call)
        by == [text |-> call.text, language |-> BodyLanguage(call)]
    IN  /\ cache' = r.table
        /\ ret' = [op |-> "analyze", key |-> key, value |-> r.value,
                   outcome |-> r.outcome, reason |-> r.reason, text |-> call.text,
                   language |-> BodyLanguage(call), ran |-> r.ran, hit |-> r.hit,
                   stored |-> r.stored, evicted |-> r.evicted, kept |-> r.kept,
                   expired |-> r.expired,
                   n |-> r.n,
                   at |-> now, run |-> r.run]
        /\ written' = IF r.stored
                      THEN Remember(written, key, r.value, AnalysisTTL, now,
                                    <<by>>, r.evicted)
                      ELSE written
        /\ UNCHANGED <<max_size, now, pc, frame, running, requests>>

\* await nlp_service.analyze_text(...)
Analyze(call, fault) ==
    /\ Returned(call,
                WrapperCall(cache, call,
                            AnalyzeBody(call.text, BodyLanguage(call), fault),
                            now, max_size, DefaultTTL))
    /\ UNCHANGED input

\* an exception the runtime raises inside the try block of analyze_text
Faults == {"none", "RuntimeError"}

Next ==
    \/ Tick
    \/ \E k \in OtherKeys \cup AnalysisKeys : Get(k)
    \/ \E k \in OtherKeys, v \in DataValues, ttl \in TTLs : Set(k, v, ttl)
    \/ \E k \in OtherKeys \cup AnalysisKeys : Delete(k)
    \/ Clear
    \/ \E call \in Calls(SampleTexts), fault \in Faults : Analyze(call, fault)

Spec == Init /\ [][Next]_vars

(***************************************************************************)
(* The pipeline specification: one call of analyze_text per text, over     *)
(* every text of at most MaxTokens words.                                  *)
(***************************************************************************)
\* the words written without a space between them: the connector ثم and
\* what follows it, a number and its currency
GlueAllowed(prev, w) == prev = "thumma" \/ (IsRawDigits(prev) /\ IsCurrency(w))

TextsOfLen(n) ==
    {t \in [1..n -> [w : Words, g : BOOLEAN]] :
        /\ ~t[1].g
        /\ \A i \in 2..n : t[i].g => GlueAllowed(t[i - 1].w, t[i].w)}

InitPipe ==
    /\ cache = <<>>
    /\ max_size = MaxCacheSize
    /\ now = 0
    /\ ret = NoRet
    /\ written = [k \in OtherKeys \cup AnalysisKeys |-> <<>>]
    /\ \E n \in 1..MaxTokens : input \in TextsOfLen(n)
    /\ NoLoop
    /\ requests = NoRequests

\* POST /analyze: nlp_service.analyze_text(sanitized_text, input_data.language)
AnalyzeInput ==
    \E language \in {"ar"} :
        Analyze([text |-> input, language |-> language, style |-> "positional"],
                "none")

NextPipe == AnalyzeInput

SpecPipe == InitPipe /\ [][NextPipe]_vars

(***************************************************************************)
(* The eviction specification: a store of EvictMaxSize entries, full, as   *)
(* EvictMaxSize sets at the times 0 and 1 leave it.                        *)
(***************************************************************************)
\* max_size of the store of the eviction specification
EvictMaxSize == 20

EvictKey(i) == TranscriptionKey(ToString(i))

EvictKeys == {EvictKey(i) : i \in 1..EvictMaxSize}

\* a key the store does not hold yet
NewKeys == {TranscriptionKey("new")}

\* the first keys of the store: the ones get is called on
FirstKeys == {EvictKey(i) : i \in 1..3}

\* the store after set(EvictKey(i), v1) for i = 1..EvictMaxSize: the keys of
\* early at time 0, the others at time 1; the keys of short with ttl = 1
FullStore(early, short) ==
    [i \in 1..EvictMaxSize |->
        NewEntry(EvictKey(i), [kind |-> "data", data |-> "v1"],
                 IF i \in short THEN <<1>> ELSE NoTTL,
                 IF i \in early THEN 0 ELSE 1, DefaultTTL)]

InitEvict ==
    /\ \E early \in SUBSET (1..3), short \in {{}, {3}} :
          /\ cache = FullStore(early, short)
          /\ written = [k \in EvictKeys \cup NewKeys |->
                          IF k \in NewKeys THEN <<>>
                          ELSE <<[value |-> EntryOf(FullStore(early, short), k).value,
                                  expires_at |->
                                      EntryOf(FullStore(early, short), k).expires_at,
                                  by |-> <<>>]>>]
    /\ max_size = EvictMaxSize
    /\ now = 1
    /\ ret = NoRet
    /\ input = <<>>
    /\ NoLoop
    /\ requests = NoRequests

NextEvict ==
    \/ Tick
    \/ \E k \in FirstKeys : Get(k)
    \/ \E k \in NewKeys \cup {EvictKey(1)}, ttl \in TTLs :
          Set(k, [kind |-> "data", data |-> "v2"], ttl)

SpecEvict == InitEvict /\ [][NextEvict]_vars

(***************************************************************************)
(* The event-loop specification.  The request handlers are coroutines of   *)
(* one asyncio event loop: a coroutine runs, statement after statement,    *)
(* until it awaits something that is not ready, and only then does the     *)
(* loop run another one.  The cache operations are taken apart into their  *)
(* statements.  Labels: idle (no request), get1 get2 get3 (cache.get),     *)
(* hit, body (the wrapper), exec (awaiting run_in_executor), set1 set2     *)
(* set3 (cache.set).                                                       *)
(***************************************************************************)
\* ttl of a cached transcription
TranscriptionTTL == 86400

SuspendsInSet(l) == l \in {"idle", "exec", "set2"}

\* the labels at which a coroutine hands control back to the loop: between
\* requests, and at await loop.run_in_executor(...).  The wrapper's
\* await func(...) does not: analyze_text awaits nothing.
Suspends(l) == l \in {"idle", "exec"}

\* get, set: the statements after the first one
InCacheOp(l) == l \in {"get2", "get3", "set2", "set3"}

\* the loop runs t, or runs nothing and may pick t
Scheduled(t) == running \in {t, "none"}

Go(t, l, f) ==
    /\ pc' = [pc EXCEPT ![t] = l]
    /\ frame' = [frame EXCEPT ![t] = f]
    /\ running' = IF Suspends(l) THEN "none" ELSE t

Requests ==
    {[kind |-> "analyze", text |-> x,
      key |-> WrapperKey([text |-> x, language |-> "ar", style |-> "positional"])] :
        x \in SampleTexts}
    \cup {[kind |-> "transcribe", text |-> <<>>, key |-> k] : k \in OtherKeys}

\* where the caller of cache.get goes on with the value v
AfterGet(kind, v) ==
    IF kind = "analyze" THEN (IF v # None THEN "hit" ELSE "body")
    ELSE (IF v # None THEN "idle" ELSE "exec")

\* a request arrives: the handler runs up to its cache.get
Start(t, req) ==
    /\ pc[t] = "idle" /\ Scheduled(t)
    /\ Go(t, "get1", [NoFrame EXCEPT !.kind = req.kind, !.key = req.key,
                                     !.text = req.text])
    /\ UNCHANGED <<cache, max_size, now, ret, written, input, requests>>

\* get: if key not in self.cache: return None; entry = self.cache[key]
GetLookup(t) ==
    /\ pc[t] = "get1" /\ Scheduled(t)
    /\ IF Has(cache, frame[t].key)
       THEN Go(t, "get2", [frame[t] EXCEPT !.before = cache,
                                           !.entry = <<EntryOf(cache, frame[t].key)>>])
       ELSE Go(t, AfterGet(frame[t].kind, None), frame[t])
    /\ UNCHANGED <<cache, max_size, now, ret, written, input, requests>>

\* get: if self._is_expired(entry): del self.cache[key]; return None
GetExpire(t) ==
    /\ pc[t] = "get2" /\ Scheduled(t)
    /\ IF IsExpired(frame[t].entry[1], now)
       THEN /\ cache' = Remove(cache, {frame[t].key})
            /\ Go(t, AfterGet(frame[t].kind, None),
                  [frame[t] EXCEPT !.before = <<>>, !.entry = <<>>])
       ELSE /\ cache' = cache
            /\ Go(t, "get3", frame[t])
    /\ UNCHANGED <<max_size, now, ret, written, input, requests>>

\* get: entry['last_accessed'] = time.time(); return entry['value']
GetTouch(t) ==
    /\ pc[t] = "get3" /\ Scheduled(t)
    /\ cache' = IF Has(cache, frame[t].key)
                THEN [cache EXCEPT ![IndexOf(cache, frame[t].key)].last_accessed = now]
                ELSE cache
    /\ Go(t, AfterGet(frame[t].kind, frame[t].entry[1].value),
          [frame[t] EXCEPT !.before = <<>>, !.entry = <<>>])
    /\ UNCHANGED <<max_size, now, ret, written, input, requests>>

\* wrapper: logger.info(f"... {text[:30]}..."); return cached_result
LogHit(t) ==
    /\ pc[t] = "hit" /\ Scheduled(t)
    /\ Go(t, "idle", NoFrame)
    /\ UNCHANGED <<cache, max_size, now, ret, written, input, requests>>

\* wrapper: result = await func(text, *args, **kwargs)
RunBody(t) ==
    LET r == AnalyzeBody(frame[t].text, "ar", "none")
    IN  /\ pc[t] = "body" /\ Scheduled(t)
        /\ IF r.outcome = "ok"
           THEN Go(t, "set1", [frame[t] EXCEPT !.value = r.value])
           ELSE Go(t, "idle", NoFrame)
        /\ UNCHANGED <<cache, max_size, now, ret, written, input, requests>>

\* transcribe_audio resumes with the transcript, or fails on it
ExecutorDone(t, v, ok) ==
    /\ pc[t] = "exec" /\ Scheduled(t)
    /\ IF ok THEN Go(t, "set1", [frame[t] EXCEPT !.value = v])
       ELSE Go(t, "idle", NoFrame)
    /\ UNCHANGED <<cache, max_size, now, ret, written, input, requests>>

\* set: self._cleanup_expired()
SetSweep(t) ==
    /\ pc[t] = "set1" /\ Scheduled(t)
    /\ cache' = CleanupExpired(cache, now)
    /\ Go(t, "set2", [frame[t] EXCEPT !.before = cache])
    /\ UNCHANGED <<max_size, now, ret, written, input, requests>>

\* set: self._evict_oldest()
SetEvict(t) ==
    /\ pc[t] = "set2" /\ Scheduled(t)
    /\ cache' = EvictOldest(cache, max_size)
    /\ written' = [k \in DOMAIN written |->
                     IF k \in OldestKeys(cache, max_size) THEN <<>> ELSE written[k]]
    /\ Go(t, "set3", frame[t])
    /\ UNCHANGED <<max_size, now, ret, input, requests>>

\* set: self.cache[key] = {...}
SetStore(t) ==
    LET ttl == IF frame[t].kind = "analyze" THEN AnalysisTTL ELSE TranscriptionTTL
        by == IF frame[t].kind = "analyze"
              THEN <<[text |-> frame[t].text, language |-> "ar"]>> ELSE <<>>
    IN  /\ pc[t] = "set3" /\ Scheduled(t)
        /\ cache' = Store(cache, NewEntry(frame[t].key, frame[t].value, <<ttl>>, now,
                                          DefaultTTL))
        /\ written' = Remember(written, frame[t].key, frame[t].value, ttl, now, by, {})
        /\ Go(t, "idle", NoFrame)
        /\ UNCHANGED <<max_size, now, ret, input, requests>>

\* time passes while the loop waits
LoopTick == running = "none" /\ Tick

InitLoop ==
    /\ cache = <<>>
    /\ max_size \in 1..MaxCacheSize
    /\ now = 0
    /\ ret = NoRet
    /\ written = [k \in OtherKeys \cup AnalysisKeys |-> <<>>]
    /\ input = <<>>
    /\ pc = [t \in Coroutines |-> "idle"]
    /\ frame = [t \in Coroutines |-> NoFrame]
    /\ running = "none"
    /\ requests = NoRequests

NextLoop ==
    \/ LoopTick
    \/ \E t \in Coroutines, req \in Requests : Start(t, req)
    \/ \E t \in Coroutines : GetLookup(t)
    \/ \E t \in Coroutines : GetExpire(t)
    \/ \E t \in Coroutines : GetTouch(t)
    \/ \E t \in Coroutines : LogHit(t)
    \/ \E t \in Coroutines : RunBody(t)
    \/ \E t \in Coroutines, v \in DataValues, ok \in BOOLEAN : ExecutorDone(t, v, ok)
    \/ \E t \in Coroutines : SetSweep(t)
    \/ \E t \in Coroutines : SetEvict(t)
    \/ \E t \in Coroutines : SetStore(t)

SpecLoop == InitLoop /\ [][NextLoop]_vars

(***************************************************************************)
(* The summary specification: _calculate_summary applied to every list of  *)
(* at most MaxTransactions transactions that the extractor can build.      *)
(***************************************************************************)
\* number of transactions of the lists that are summarized
MaxTransactions == 3

\* the segments the transactions are built from:
\* "اشتريت خضار", "استلمت كارفور", "اشتريت جنيه", "استلمت"
SummarySegments ==
    {<<W("ishtarayt"), W("khodar")>>, <<W("istalamt"), W("karfur")>>,
     <<W("ishtarayt"), W("geneh")>>, <<W("istalamt")>>}

\* the amounts the loop hands to extract_transaction: None, 30, 50
SummaryAmounts == {<<>>, <<30>>, <<50>>}

\* the transactions analyze_text appends to its list
BuiltTransactions ==
    {tr \in {ExtractTransaction(t, a) : t \in SummarySegments, a \in SummaryAmounts} :
        IsMeaningfulTransaction(tr)}

TransactionLists ==
    UNION {[1..n -> BuiltTransactions] : n \in 0..MaxTransactions}

InitSummary ==
    /\ cache = <<>>
    /\ max_size = MaxCacheSize
    /\ now = 0
    /\ ret = NoRet
    /\ written = [k \in OtherKeys \cup AnalysisKeys |-> <<>>]
    /\ input \in TransactionLists
    /\ NoLoop
    /\ requests = NoRequests

\* summary = self._calculate_summary(transactions)
Summarize ==
    /\ ret' = [NoRet EXCEPT !.op = "summary", !.value = CalculateSummary(input)]
    /\ UNCHANGED <<cache, max_size, now, written, input, pc, frame, running, requests>>

NextSummary == Summarize

SpecSummary == InitSummary /\ [][NextSummary]_vars

(***************************************************************************)
(* The two-clause specification: one call of analyze_text per text made of *)
(* two clauses of at most MaxSegTokens words joined by a connector.        *)
(***************************************************************************)
\* number of words of a clause
MaxSegTokens == 2

PairWords == {"ishtarayt", "n50", "geneh", "talatin", "musaddas"}

Clauses == UNION {[1..n -> [w : PairWords, g : {FALSE}]] : n \in 1..MaxSegTokens}

\* "a وبعدين b", "a ثم b" and, glued, "a ثمb"
Joined(a, c, glued, b) ==
    a \o <<W(c)>> \o [i \in DOMAIN b |-> IF i = 1 THEN [w |-> b[1].w, g |-> glued]
                                        ELSE b[i]]

\* the connector between the clauses, and whether the second clause is
\* glued to it
Joints ==
    {[c |-> "wabaadin", glued |-> FALSE], [c |-> "thumma", glued |-> FALSE],
     [c |-> "thumma", glued |-> TRUE]}

InitPair ==
    /\ cache = <<>>
    /\ max_size = MaxCacheSize
    /\ now = 0
    /\ ret = NoRet
    /\ written = [k \in OtherKeys \cup AnalysisKeys |-> <<>>]
    /\ \E a \in Clauses, b \in Clauses, j \in Joints : input = Joined(a, j.c, j.glued, b)
    /\ NoLoop
    /\ requests = NoRequests

SpecPair == InitPair /\ [][NextPipe]_vars

(***************************************************************************)
(* The splitter specification: split_text_into_segments applied to every   *)
(* text of at most MaxSplitTokens words, the empty text included.          *)
(***************************************************************************)
\* number of words of the texts that are split
MaxSplitTokens == 5

SplitWords == {"khodar", "wabaadin", "thumma", "n5", "geneh", "talatin"}

SplitTextsOfLen(n) ==
    {t \in [1..n -> [w : SplitWords, g : BOOLEAN]] :
        /\ n >= 1 => ~t[1].g
        /\ \A i \in 2..n : t[i].g => GlueAllowed(t[i - 1].w, t[i].w)}

InitSplit ==
    /\ cache = <<>>
    /\ max_size = MaxCacheSize
    /\ now = 0
    /\ ret = NoRet
    /\ written = [k \in OtherKeys \cup AnalysisKeys |-> <<>>]
    /\ \E n \in 0..MaxSplitTokens : input \in SplitTextsOfLen(n)
    /\ NoLoop
    /\ requests = NoRequests

\* segments = split_text_into_segments(text)
Split ==
    /\ ret' = [NoRet EXCEPT !.op = "split", !.text = input,
                            !.value = SplitSegments(input)]
    /\ UNCHANGED <<cache, max_size, now, written, input, pc, frame, running, requests>>

NextSplit == Split

SpecSplit == InitSplit /\ [][NextSplit]_vars

(***************************************************************************)
(* The classifier specification: CategoryClassifier.classify applied to    *)
(* every segment of at most MaxClassifyTokens words, with and without a    *)
(* merchant.                                                               *)
(***************************************************************************)
\* number of words of the segments that are classified
MaxClassifyTokens == 2

ClassifyWords ==
    {"tazkara", "qahwa", "kafeh", "taxi", "khodar", "malabis", "ishtarayt", "karfur"}

ClassifyTexts ==
    UNION {[1..n -> [w : ClassifyWords, g : {FALSE}]] : n \in 0..MaxClassifyTokens}

ClassifyPlaces == {<<>>, <<"karfur">>}

InitClassify ==
    /\ cache = <<>>
    /\ max_size = MaxCacheSize
    /\ now = 0
    /\ ret = NoRet
    /\ written = [k \in OtherKeys \cup AnalysisKeys |-> <<>>]
    /\ input \in [text : ClassifyTexts, place : ClassifyPlaces]
    /\ NoLoop
    /\ requests = NoRequests

\* category = self.classifier.classify(text, place)
ClassifyCall ==
    /\ ret' = [NoRet EXCEPT !.op = "classify", !.text = input.text,
                            !.value = Classify(input.text, input.place)]
    /\ UNCHANGED <<cache, max_size, now, written, input, pc, frame, running, requests>>

NextClassify == ClassifyCall

SpecClassify == InitClassify /\ [][NextClassify]_vars

(***************************************************************************)
(* normalize_arabic_text, character by character.  A string is a sequence  *)
(* of characters; each character is named by its Unicode name or, for the  *)
(* digits, by its script and value.                                        *)
(***************************************************************************)
\* arabic_indic = '٠١٢٣٤٥٦٧٨٩'
ArabicIndic == <<"ar0", "ar1", "ar2", "ar3", "ar4", "ar5", "ar6", "ar7", "ar8", "ar9">>

\* extended_arabic = '۰۱۲۳۴۵۶۷۸۹'
ExtendedArabic == <<"ex0", "ex1", "ex2", "ex3", "ex4", "ex5", "ex6", "ex7", "ex8", "ex9">>

\* english = '0123456789'
English == <<"0", "1", "2", "3", "4", "5", "6", "7", "8", "9">>

\* diacritics: fathatan, dammatan, kasratan, fatha, damma, kasra, shadda, sukun
Diacritics ==
    <<"fathatan", "dammatan", "kasratan", "fatha", "damma", "kasra", "shadda", "sukun">>

\* zip(arabic_indic + extended_arabic, english * 2)
DigitPairs ==
    [i \in 1..Len(ArabicIndic \o ExtendedArabic) |->
        [old |-> (ArabicIndic \o ExtendedArabic)[i], new |-> <<(English \o English)[i]>>]]

\* a replacement that is not stable: teh marbuta becomes alef maksura, which
\* an earlier step folds
ReplacementsUnstable ==
    DigitPairs
    \o <<[old |-> "alef_maksura", new |-> <<"yeh">>],
         [old |-> "teh_marbuta", new |-> <<"alef_maksura">>]>>
    \o [i \in DOMAIN Diacritics |-> [old |-> Diacritics[i], new |-> <<>>]]

\* the text.replace(old, new) calls of normalize_arabic_text, in order
Replacements ==
    DigitPairs
    \o <<[old |-> "arabic_decimal_separator", new |-> <<"full_stop">>],
         [old |-> "arabic_comma", new |-> <<"comma">>],
         [old |-> "alef_hamza_above", new |-> <<"alef">>],
         [old |-> "alef_hamza_below", new |-> <<"alef">>],
         [old |-> "alef_madda_above", new |-> <<"alef">>],
         [old |-> "teh_marbuta", new |-> <<"heh">>],
         [old |-> "alef_maksura", new |-> <<"yeh">>]>>
    \o [i \in DOMAIN Diacritics |-> [old |-> Diacritics[i], new |-> <<>>]]

\* str.replace(old, new) for a one-character old
RECURSIVE Replace(_, _, _)
Replace(s, old, new) ==
    IF s = <<>> THEN <<>>
    ELSE (IF Head(s) = old THEN new ELSE <<Head(s)>>) \o Replace(Tail(s), old, new)

RECURSIVE ReplaceFrom(_, _, _)
ReplaceFrom(s, steps, k) ==
    IF k > Len(steps) THEN s
    ELSE ReplaceFrom(Replace(s, steps[k].old, steps[k].new), steps, k + 1)

NormalizeArabicText(s) == IF s = <<>> THEN <<>> ELSE ReplaceFrom(s, Replacements, 1)

\* length of the strings that are normalized
MaxChars == 2

\* the characters the function rewrites, the characters it writes, and a
\* letter it leaves alone
NormChars ==
    {Replacements[k].old : k \in DOMAIN Replacements}
    \cup UNION {{Replacements[k].new[i] : i \in DOMAIN Replacements[k].new} :
                    k \in DOMAIN Replacements}
    \cup {"beh"}

Strings == UNION {[1..n -> NormChars] : n \in 0..MaxChars}

InitNormalize ==
    /\ cache = <<>>
    /\ max_size = MaxCacheSize
    /\ now = 0
    /\ ret = NoRet
    /\ written = [k \in OtherKeys \cup AnalysisKeys |-> <<>>]
    /\ input \in Strings
    /\ NoLoop
    /\ requests = NoRequests

\* normalized = normalize_arabic_text(text)
NormalizeCall ==
    /\ ret' = [NoRet EXCEPT !.op = "normalize", !.text = input,
                            !.value = NormalizeArabicText(input)]
    /\ UNCHANGED <<cache, max_size, now, written, input, pc, frame, running, requests>>

NextNormalize == NormalizeCall

SpecNormalize == InitNormalize /\ [][NextNormalize]_vars

(***************************************************************************)
(* The confidence specification: _calculate_confidence applied to every    *)
(* segment of at most MaxConfTokens words with every combination of        *)
(* amount, merchant and item.                                              *)
(***************************************************************************)
\* number of words of the segments that are scored
MaxConfTokens == 2

ConfWords == {"ishtarayt", "istalamt", "khodar", "karfur"}

ConfTexts == UNION {[1..n -> [w : ConfWords, g : {FALSE}]] : n \in 0..MaxConfTokens}

ConfInputs ==
    [text : ConfTexts, amount : {<<>>, <<0>>, <<50>>},
     place : {<<>>, <<"karfur">>}, item : {<<>>, <<"khodar">>}]

InitConfidence ==
    /\ cache = <<>>
    /\ max_size = MaxCacheSize
    /\ now = 0
    /\ ret = NoRet
    /\ written = [k \in OtherKeys \cup AnalysisKeys |-> <<>>]
    /\ input \in ConfInputs
    /\ NoLoop
    /\ requests = NoRequests

\* confidence = self._calculate_confidence(text, amount, place, item)
ConfidenceCall ==
    /\ ret' = [NoRet EXCEPT !.op = "confidence", !.text = input.text,
                            !.value = Confidence(input.text, input.amount,
                                                 input.place, input.item)]
    /\ UNCHANGED <<cache, max_size, now, written, input, pc, frame, running, requests>>

NextConfidence == ConfidenceCall

SpecConfidence == InitConfidence /\ [][NextConfidence]_vars

(***************************************************************************)
(* The API specification: POST /analyze.  A request body carries a text    *)
(* followed by pad spaces and a language; FastAPI validates it as a        *)
(* TextInput before the endpoint function is called, and an exception      *)
(* handler of app.main answers when the validation or the endpoint fails.  *)
(***************************************************************************)
\* settings.min_text_length
MinTextLength == 3

\* settings.max_text_length
MaxTextLength == 1000

ApiTexts == SampleTexts \cup {<<>>}

\* an empty body text, a valid one, one of exactly max_text_length
\* characters and one a character longer
ApiRequests ==
    UNION {[text : {t}, language : {"ar"},
            pad : {0, MinTextLength, MaxTextLength - TextLen(t),
                   MaxTextLength - TextLen(t) + 1}] : t \in ApiTexts}

\* len(text) of the request body
BodyLen(req) == TextLen(req.text) + req.pad

\* TextInput: the Field constraints, then validate_text and validate_language
TextInputValid(req) ==
    /\ BodyLen(req) >= MinTextLength
    /\ BodyLen(req) <= MaxTextLength
    /\ req.text # <<>>
    /\ req.language \in Languages

\* SecurityUtils.sanitize_text: the vocabulary has no markup and no control
\* character, and TextInput has stripped the text
SanitizeText(t) == t

\* the types json.dumps encodes
JsonTypes == {"dict", "list", "str", "int", "float", "bool", "None"}

\* ErrorResponse(error=...).dict(): the Python type of each value
ErrorResponseDict ==
    [success |-> "bool", timestamp |-> "datetime", request_id |-> "str",
     error |-> "dict"]

\* JSONResponse(status_code=..., content=...): the body is rendered with
\* json.dumps when the response is built
JSONResponse(status_code, content) ==
    IF \A f \in DOMAIN content : content[f] \in JsonTypes
    THEN [status |-> status_code, raised |-> "none"]
    ELSE [status |-> 0, raised |-> "TypeError"]

ValidationErrorHandler == JSONResponse(422, ErrorResponseDict)

HttpExceptionHandler(status_code) == JSONResponse(status_code, ErrorResponseDict)

GeneralExceptionHandler == JSONResponse(500, ErrorResponseDict)

\* the status the client receives: the handler's response, or, when the
\* handler raises, the one of the handler for Exception, or, when that one
\* raises too, the server's own 500
StatusSent(response) ==
    IF response.raised = "none" THEN response.status
    ELSE IF GeneralExceptionHandler.raised = "none"
    THEN GeneralExceptionHandler.status
    ELSE 500

\* endpoints.analyze_text: the except clauses turn the outcome of the call
\* into an HTTPException; the result is returned as a TextAnalysisResponse
EndpointStatus(outcome) ==
    IF outcome = "ok" THEN 200
    ELSE IF outcome = "ValidationError" THEN StatusSent(HttpExceptionHandler(400))
    ELSE StatusSent(HttpExceptionHandler(500))

ApiCall(req) ==
    [text |-> SanitizeText(req.text), language |-> req.language, style |-> "positional"]

InitApi ==
    /\ cache = <<>>
    /\ max_size = MaxCacheSize
    /\ now = 0
    /\ ret = NoRet
    /\ written = [k \in OtherKeys \cup AnalysisKeys |-> <<>>]
    /\ input = <<>>
    /\ NoLoop
    /\ requests = NoRequests

\* the request was answered without the endpoint's call of analyze_text
Unserved(req, status) ==
    /\ ret' = [op |-> "post", request |-> req, status |-> status, before |-> cache,
               called |-> FALSE, key |-> <<>>, value |-> None, outcome |-> "none",
               reason |-> "none", text |-> req.text, language |-> req.language,
               ran |-> FALSE, hit |-> FALSE, stored |-> FALSE, evicted |-> {},
               kept |-> {}, n |-> 0, expired |-> {}, at |-> now, run |-> EmptyRun]
    /\ UNCHANGED <<cache, max_size, now, written, input, pc, frame, running, requests>>

\* the endpoint called analyze_text, which came back with r
Served(req, call, r) ==
    /\ cache' = r.table
    /\ ret' = [op |-> "post", request |-> req, status |-> EndpointStatus(r.outcome),
               before |-> cache, called |-> TRUE, key |-> WrapperKey(call),
               value |-> r.value, outcome |-> r.outcome, reason |-> r.reason,
               text |-> call.text, language |-> BodyLanguage(call), ran |-> r.ran,
               hit |-> r.hit, stored |-> r.stored, evicted |-> r.evicted,
               kept |-> r.kept, n |-> r.n, expired |-> r.expired, at |-> now,
               run |-> r.run]
    /\ written' = IF r.stored
                  THEN Remember(written, WrapperKey(call), r.value, AnalysisTTL, now,
                                <<[text |-> call.text, language |-> BodyLanguage(call)]>>,
                                r.evicted)
                  ELSE written
    /\ UNCHANGED <<max_size, now, input, pc, frame, running, requests>>

\* POST /analyze.  limited: the rate limiter refuses the client; fault: an
\* exception the runtime raises inside analyze_text.
Post(req, limited, fault) ==
    IF ~TextInputValid(req)
    THEN Unserved(req, StatusSent(ValidationErrorHandler))
    ELSE IF limited
    THEN Unserved(req, StatusSent(HttpExceptionHandler(500)))
    ELSE Served(req, ApiCall(req),
                WrapperCall(cache, ApiCall(req),
                            AnalyzeBody(ApiCall(req).text, req.language, fault),
                            now, max_size, DefaultTTL))

NextApi ==
    \/ Tick
    \/ \E req \in ApiRequests, limited \in BOOLEAN, fault \in Faults :
          Post(req, limited, fault)

SpecApi == InitApi /\ [][NextApi]_vars

(***************************************************************************)
(* The extraction specification: extract_amounts_from_text applied to      *)
(* every text of at most MaxExtractTokens words, runs of spaces included.  *)
(***************************************************************************)
\* number of words of the texts amounts are extracted from
MaxExtractTokens == 4

ExtractWords ==
    {"talatin", "bitalatin", "khamsin", "khodar", "n5", "n0", "geneh", "blank"}

ExtractTextsOfLen(n) ==
    {t \in [1..n -> [w : ExtractWords, g : BOOLEAN]] :
        /\ n >= 1 => ~t[1].g
        /\ \A i \in 2..n :
              t[i].g => IsRawDigits(t[i - 1].w) /\ IsCurrency(t[i].w)}

InitExtract ==
    /\ cache = <<>>
    /\ max_size = MaxCacheSize
    /\ now = 0
    /\ ret = NoRet
    /\ written = [k \in OtherKeys \cup AnalysisKeys |-> <<>>]
    /\ \E n \in 0..MaxExtractTokens : input \in ExtractTextsOfLen(n)
    /\ NoLoop
    /\ requests = NoRequests

\* all_amounts = extract_amounts_from_text(text)
Extract ==
    /\ ret' = [NoRet EXCEPT !.op = "extract", !.text = input,
                            !.value = ExtractAmounts(input)]
    /\ UNCHANGED <<cache, max_size, now, written, input, pc, frame, running, requests>>

NextExtract == Extract

SpecExtract == InitExtract /\ [][NextExtract]_vars

(***************************************************************************)
(* The rate-limiter specification: check_rate_limit called for two client  *)
(* addresses with the limits of the endpoints, on the one list the global  *)
(* rate limiter keeps per client.  input is the log of the calls made.     *)
(***************************************************************************)
\* largest limit an endpoint passes to check_rate_limit
MaxLimit == 2
\* window, the seconds both endpoints pass to check_rate_limit
RateWindow == 2
\* number of calls of check_rate_limit in a behaviour
MaxRateCalls == 3

\* a limiter that records the requests it rejects as well
IsRateLimitedRecordAll(reqs, client_ip, limit, window, t) ==
    LET client_requests == SelectSeq(reqs[client_ip], LAMBDA req_time : t - req_time < window)
    IN  [limited |-> Len(client_requests) >= limit,
         requests |-> [reqs EXCEPT ![client_ip] = Append(client_requests, t)]]

\* RateLimitMiddleware.is_rate_limited: what it returns and the lists it
\* leaves
IsRateLimited(reqs, client_ip, limit, window, t) ==
    LET client_requests == SelectSeq(reqs[client_ip], LAMBDA req_time : t - req_time < window)
    IN  IF Len(client_requests) >= limit
        THEN [limited |-> TRUE, requests |-> reqs]
        ELSE [limited |-> FALSE,
              requests |-> [reqs EXCEPT ![client_ip] = Append(client_requests, t)]]

InitRate ==
    /\ cache = <<>>
    /\ max_size = MaxCacheSize
    /\ now = 0
    /\ ret = NoRet
    /\ written = [k \in OtherKeys \cup AnalysisKeys |-> <<>>]
    /\ input = <<>>
    /\ NoLoop
    /\ requests = NoRequests

\* check_rate_limit(request, limit, window) for a request of client_ip
CheckRateLimit(client_ip, limit) ==
    LET r == IsRateLimited(requests, client_ip, limit, RateWindow, now)
    IN  /\ Len(input) < MaxRateCalls
        /\ requests' = r.requests
        /\ input' = Append(input, [client |-> client_ip, limit |-> limit, at |-> now,
                                   admitted |-> ~r.limited])
        /\ ret' = [NoRet EXCEPT !.op = "rate", !.key = client_ip, !.at = now,
                                !.n = limit,
                                !.outcome = IF r.limited THEN "HTTPException" ELSE "ok"]
        /\ UNCHANGED <<cache, max_size, now, written, pc, frame, running>>

NextRate ==
    \/ Tick
    \/ \E client_ip \in Clients, limit \in 1..MaxLimit : CheckRateLimit(client_ip, limit)

SpecRate == InitRate /\ [][NextRate]_vars

(***************************************************************************)
(* The retry specification: analyze_text(text, "ar") called again and     *)
(* again on one NLPService while time passes.  input is the set of the     *)
(* (text, language) pairs whose call has ended in a ValidationError or an  *)
(* NLPProcessingError so far.                                              *)
(***************************************************************************)
InitRetry ==
    /\ cache = <<>>
    /\ max_size = MaxCacheSize
    /\ now = 0
    /\ ret = NoRet
    /\ written = [k \in OtherKeys \cup AnalysisKeys |-> <<>>]
    /\ input = {}
    /\ NoLoop
    /\ requests = NoRequests

\* await nlp_service.analyze_text(...), the failures being noted
AnalyzeAgain(call, fault) ==
    LET r == WrapperCall(cache, call,
                         AnalyzeBody(call.text, BodyLanguage(call), fault),
                         now, max_size, DefaultTTL)
    IN  /\ Returned(call, r)
        /\ input' = IF r.outcome \in {"ValidationError", "NLPProcessingError"}
                    THEN input \cup {[text |-> call.text, language |-> BodyLanguage(call)]}
                    ELSE input

NextRetry ==
    \/ Tick
    \/ \E text \in SampleTexts, fault \in Faults :
          AnalyzeAgain([text |-> text, language |-> "ar", style |-> "positional"],
                       fault)

SpecRetry == InitRetry /\ [][NextRetry]_vars

(***************************************************************************)
(* The claims.                                                             *)
(***************************************************************************)
\* what written holds for the key of the operation just made
Stored == written[ret.key]

ThisCall == [text |-> ret.text, language |-> ret.language]

\* C1: two analyze calls whose (text, language) differ use different cache
\* keys: the entry stored under the key of an analyze call was computed for
\* that call's text and language, never for another call's.
C1_KeysSeparateCalls ==
    (ret.op = "analyze" /\ Stored # <<>> /\ Stored[1].by # <<>>)
        => Stored[1].by[1] = ThisCall

\* C2: an analyze call made while the result of an earlier call with the same
\* text and language is stored and within its TTL returns that result, and
\* does not run the pipeline again.
C2_SecondCallServedFromCache ==
    (ret.op = "analyze" /\ ~ret.stored /\ Stored # <<>> /\ Stored[1].by = <<ThisCall>>)
        => (ret.outcome = "ok" /\ ret.value = Stored[1].value /\ ~ret.ran)

\* C4: get(k) returns the value last set for k as long as k was not deleted,
\* cleared or evicted and the time is at most the expiry instant; otherwise it
\* returns None and k is not in the store afterwards.
C4_GetReturnsLastSet ==
    ret.op = "get" =>
        IF Stored # <<>>
        THEN ret.value = Stored[1].value /\ Has(cache, ret.key)
        ELSE ret.value = None /\ ~Has(cache, ret.key)

\* a get made exactly at the expiry instant of its key returned the value
C4_GetAtExpiryInstant ==
    /\ ret.op = "get"
    /\ Stored # <<>>
    /\ now = Stored[1].expires_at
    /\ ret.value = Stored[1].value

\* C5: with max_size >= 1 the store never holds more than max_size entries.
C5_SizeWithinMax == max_size >= 1 => Len(cache) <= max_size

\* a set found the store full, evicted, and left it full
C5_FullStoreAfterEviction ==
    /\ max_size >= 1
    /\ ret.stored
    /\ ret.evicted # {}
    /\ Len(cache) = max_size

\* C8: an analyze call on a text the gate rejects ends in a ValidationError
\* that carries the reason and returns no result; a text with no prohibited
\* term and with a financial indicator is not rejected.
C8_GateDecidesOutcome ==
    ret.op = "analyze" =>
        /\ GateReason(ret.text) # "none" =>
              (ret.outcome = "ValidationError" /\ ret.reason = GateReason(ret.text)
               /\ ret.value = None)
        /\ (IsSafe(ret.text) /\ IsFinancialContent(ret.text)) =>
              ret.outcome # "ValidationError"

\* C10: an analyze call that fails, fails with a ValidationError or with an
\* NLPProcessingError.
C10_OnlyTwoErrorKinds ==
    (ret.op = "analyze" /\ ret.outcome # "ok")
        => ret.outcome \in {"ValidationError", "NLPProcessingError"}

\* C3: within one analyze call no mention of the inventory is behind two
\* transactions.
C3_MentionUsedOnce ==
    ret.op = "analyze" =>
        \A i, j \in DOMAIN ret.run.mentions :
            (i < j /\ ret.run.mentions[i] # <<>>)
                => ret.run.mentions[i] # ret.run.mentions[j]

\* the segments of the text just analyzed that the re-check rejects
RejectedSegments ==
    {SplitSegments(ret.text)[i].at :
        i \in {j \in DOMAIN SplitSegments(ret.text) :
                  ~IsSafe(SplitSegments(ret.text)[j].text)}}

\* C9 as stated: when the re-check rejects a segment the call fails with a
\* ValidationError.
C9_RejectedSegmentFailsCall ==
    (ret.op = "analyze" /\ ret.ran /\ ret.run.skipped # {})
        => ret.outcome = "ValidationError"

\* C9 as the code has it: a segment the re-check rejects is skipped; no
\* transaction comes from it and the call does not end in a ValidationError
\* because of it.
C9_RejectedSegmentSkipped ==
    (ret.op = "analyze" /\ ret.ran /\ GateReason(ret.text) = "none") =>
        /\ ret.run.skipped = RejectedSegments
        /\ \A i \in DOMAIN ret.run.sources : ret.run.sources[i] \notin RejectedSegments
        /\ ret.outcome # "ValidationError"

\* a call passed the gate, skipped a rejected segment and returned the
\* transactions of the other segments
C9_SkippedAndSucceeded ==
    /\ ret.op = "analyze"
    /\ ret.ran
    /\ RejectedSegments # {}
    /\ ret.outcome = "ok"
    /\ ret.value.transactions # <<>>

Undisturbed(t) ==
    /\ pc[t] \in {"get2", "get3"} => cache = frame[t].before
    /\ pc[t] = "set2" => cache = CleanupExpired(frame[t].before, now)
    /\ pc[t] = "set3" =>
          cache = EvictOldest(CleanupExpired(frame[t].before, now), max_size)

\* C7: while a coroutine is inside a cache operation no other coroutine is
\* inside one, and the table holds exactly what its own statements made: the
\* operations of concurrent analysis calls do not interleave.
C7_CacheOpsExclusive ==
    \A t \in Coroutines :
        InCacheOp(pc[t]) =>
            /\ \A u \in Coroutines \ {t} : ~InCacheOp(pc[u])
            /\ Undisturbed(t)

\* a coroutine is inside set while the other is suspended in the middle of
\* its request, between its get and its set
C7_SetWhileOtherSuspended ==
    \E t, u \in Coroutines :
        t # u /\ pc[t] \in {"set2", "set3"} /\ pc[u] = "exec"

\* the amount of transaction tr, a missing amount counting as 0
AmountOrZero(tr) == IF tr.amount = <<>> THEN 0 ELSE tr.amount[1]

\* the sum of the amounts of the transactions of trs at the indices in I
RECURSIVE SumOver(_, _)
SumOver(trs, I) ==
    IF I = {} THEN 0
    ELSE LET i == CHOOSE x \in I : TRUE
         IN  AmountOrZero(trs[i]) + SumOver(trs, I \ {i})

OfType(trs, type) == {i \in DOMAIN trs : trs[i].transaction_type = type}

WithAmount(trs) == {i \in DOMAIN trs : trs[i].amount # <<>>}

\* C11: the summary of a transaction list counts every transaction, sums the
\* amounts of the income and of the expense transactions (a missing amount
\* counts as 0), has net_amount = total_income - total_expenses, and maps
\* exactly the categories of the transactions that have an amount to the sum
\* of those amounts.
C11_SummaryMatchesList ==
    ret.op = "summary" =>
        /\ ret.value.total_transactions = Len(input)
        /\ ret.value.total_income = SumOver(input, OfType(input, "income"))
        /\ ret.value.total_expenses = SumOver(input, OfType(input, "expense"))
        /\ ret.value.net_amount = ret.value.total_income - ret.value.total_expenses
        /\ DOMAIN ret.value.categories = {input[i].category : i \in WithAmount(input)}
        /\ \A c \in DOMAIN ret.value.categories :
              ret.value.categories[c] =
                  SumOver(input, {i \in WithAmount(input) : input[i].category = c})

\* a list with income and expenses was summarized, one of its transactions
\* has no amount, is counted, and its category has no key
C11_CountedWithoutCategoryKey ==
    /\ ret.op = "summary"
    /\ ret.value.total_income > 0
    /\ ret.value.total_expenses > 0
    /\ ret.value.total_transactions = Len(input)
    /\ \E i \in DOMAIN input :
          input[i].amount = <<>> /\ input[i].category \notin DOMAIN ret.value.categories

\* the whole-text inventory of the text just analyzed, as a set of mentions
Inventory == {ExtractAmounts(ret.text)[i] : i \in DOMAIN ExtractAmounts(ret.text)}

\* the segments of the text just analyzed
Segments == {SplitSegments(ret.text)[i] : i \in DOMAIN SplitSegments(ret.text)}

\* mention e lies in segment seg
LiesIn(e, seg) == seg.at <= e.tok /\ e.tok <= seg.at + Len(seg.text) - 1

\* mention e is the first amount of segment seg
FirstAmountOf(e, seg) ==
    /\ ExtractAmounts(seg.text) # <<>>
    /\ e.tok = seg.at + ExtractAmounts(seg.text)[1].tok - 1

\* a transaction built from segment seg carries mention e
Carried(e, seg) ==
    \E i \in DOMAIN ret.run.transactions :
        /\ ret.run.sources[i] = seg.at
        /\ ret.run.mentions[i] = <<e.tok>>
        /\ ret.run.transactions[i].amount = <<e.value>>

\* two mentions of one value more than a bucket apart, a in sa and b in sb
SameValueApart(a, sa, b, sb) ==
    /\ sa.at # sb.at
    /\ LiesIn(a, sa) /\ LiesIn(b, sb)
    /\ a.value = b.value
    /\ (a.pos - b.pos > BucketWidth \/ b.pos - a.pos > BucketWidth)

Assigned == {ret.run.assigned[k] : k \in DOMAIN ret.run.assigned}

\* the text of the segment that starts at token at
SegmentTextAt(at) == (CHOOSE seg \in Segments : seg.at = at).text

\* the transaction built for an assignment has no amount, merchant or item
Bare(x) ==
    /\ x.amount = <<>>
    /\ ExtractPlace(SegmentTextAt(x.at)) = <<>>
    /\ ExtractItem(SegmentTextAt(x.at)) = <<>>

\* C13: every transaction of an AnalysisResult has an amount, a merchant or
\* an item; a transaction built with none of the three is not in the result
\* and is not counted in the summary.
C13_OnlyMeaningfulKept ==
    (ret.op = "analyze" /\ ret.outcome = "ok") =>
        /\ \A i \in DOMAIN ret.value.transactions :
              \/ ret.value.transactions[i].amount # <<>>
              \/ ret.value.transactions[i].merchant # <<>>
              \/ ret.value.transactions[i].item # <<>>
        /\ \A x \in Assigned :
              Bare(x) => \A i \in DOMAIN ret.run.sources : ret.run.sources[i] # x.at
        /\ ret.value.summary.total_transactions =
              Cardinality({x \in Assigned : ~Bare(x)})

\* a call built a transaction with nothing in it and left it out, and kept
\* one that has a merchant only
C13_BareDroppedMerchantKept ==
    /\ ret.op = "analyze"
    /\ ret.outcome = "ok"
    /\ \E x \in Assigned : Bare(x)
    /\ \E i \in DOMAIN ret.value.transactions :
          /\ ret.value.transactions[i].amount = <<>>
          /\ ret.value.transactions[i].item = <<>>
          /\ ret.value.transactions[i].merchant # <<>>

\* C14: split returns at least one segment for every text, the empty text
\* included, and is defined on every text.
C14_SplitNeverEmpty == ret.op = "split" => Len(ret.value) >= 1

\* every piece of a text was too short, and split returned the whole text
C14_AllPiecesShort ==
    /\ ret.op = "split"
    /\ input # <<>>
    /\ LongEnough(ConnectorPieces(input, 1, 1)) = <<>>
    /\ ret.value = <<[text |-> input, at |-> 1]>>

\* C20 as stated: every segment split returns has at least 6 characters.
C20_NoShortSegment ==
    ret.op = "split" =>
        \A i \in DOMAIN ret.value : TextLen(ret.value[i].text) > ShortLen

\* C20 as the code has it: when split returns two or more segments each has
\* at least 6 characters; when it returns one, that one is the whole text,
\* whatever its length.
C20_ShortOnlyAsWholeText ==
    ret.op = "split" =>
        IF Len(ret.value) >= 2
        THEN \A i \in DOMAIN ret.value : TextLen(ret.value[i].text) > ShortLen
        ELSE ret.value = <<[text |-> input, at |-> 1]>>

\* split returned two segments or more and discarded a fragment that stood
\* between connectors
C20_FragmentDiscarded ==
    /\ ret.op = "split"
    /\ Len(ret.value) >= 2
    /\ \E i \in DOMAIN input :
          /\ ~IsConnector(input[i].w)
          /\ \A k \in DOMAIN ret.value :
                ~(ret.value[k].at <= i /\ i <= ret.value[k].at + Len(ret.value[k].text) - 1)

HasTicketTerm(t) == \E i \in DOMAIN t : t[i].w = "tazkara"

HasCoffeeTerm(t) == \E i \in DOMAIN t : t[i].w \in {"qahwa", "kafeh"}

\* C15: classify returns transport for every segment with a ticket term and
\* food for every segment with a coffee-shop term and no ticket term,
\* whatever the merchant and the other keywords.
C15_SpecialCasesFirst ==
    ret.op = "classify" =>
        /\ HasTicketTerm(ret.text) => ret.value = "transport"
        /\ (HasCoffeeTerm(ret.text) /\ ~HasTicketTerm(ret.text)) => ret.value = "food"

\* C16: normalizing a normalized string changes nothing, and no character of
\* a normalized string is one that a step of the function rewrites.
C16_NormalizeIdempotent ==
    ret.op = "normalize" =>
        /\ NormalizeArabicText(ret.value) = ret.value
        /\ \A i \in DOMAIN ret.value :
              \A k \in DOMAIN Replacements : ret.value[i] # Replacements[k].old

\* a string with a letter that was folded and a diacritic that was stripped
C16_FoldedAndStripped ==
    /\ ret.op = "normalize"
    /\ \E i \in DOMAIN ret.text : ret.text[i] = "teh_marbuta"
    /\ \E i \in DOMAIN ret.text : ret.text[i] = "shadda"
    /\ ret.value = <<"heh">>

HasActionVerb(t) == \E i \in DOMAIN t : t[i].w \in {"ishtarayt", "istalamt"}

\* the pieces of evidence an input of _calculate_confidence carries
Evidence(in) ==
    (IF in.amount # <<>> THEN {"amount"} ELSE {})
    \cup (IF in.place # <<>> THEN {"merchant"} ELSE {})
    \cup (IF in.item # <<>> THEN {"item"} ELSE {})
    \cup (IF HasActionVerb(in.text) THEN {"verb"} ELSE {})

\* tenths each piece of evidence adds
Weight(e) == IF e = "amount" THEN 3 ELSE 1

RECURSIVE WeightOf(_)
WeightOf(es) ==
    IF es = {} THEN 0
    ELSE LET e == CHOOSE x \in es : TRUE IN Weight(e) + WeightOf(es \ {e})

\* C17: the confidence is min(1.0, 0.5 + 0.3 amount + 0.1 merchant + 0.1 item
\* + 0.1 verb), in tenths; it lies in [0.5, 1.0] and an input with more
\* evidence never scores lower.
C17_ConfidenceFormula ==
    ret.op = "confidence" =>
        /\ ret.value = (IF 5 + WeightOf(Evidence(input)) > 10 THEN 10
                        ELSE 5 + WeightOf(Evidence(input)))
        /\ 5 <= ret.value /\ ret.value <= 10
        /\ \A more \in ConfInputs :
              Evidence(input) \subseteq Evidence(more) =>
                  Confidence(more.text, more.amount, more.place, more.item) >= ret.value

\* all four pieces of evidence are present and the cap applies
C17_Capped ==
    /\ ret.op = "confidence"
    /\ Evidence(input) = {"amount", "merchant", "item", "verb"}
    /\ ret.value = 10

\* C18: a POST /analyze whose text is empty or longer than 1000 characters
\* is answered with status 422, without a call of analyze_text and with the
\* cache as it was.
C18_InvalidTextRejected422 ==
    (ret.op = "post" /\ (BodyLen(ret.request) = 0 \/ BodyLen(ret.request) > MaxTextLength)) =>
        /\ ret.status = 422
        /\ ~ret.called
        /\ cache = ret.before

\* the mentions given to the segments that came before the k-th assignment
UsedBefore(k) ==
    {ret.run.assigned[j].mention[1] :
        j \in {i \in 1..(k - 1) : ret.run.assigned[i].mention # <<>>}}

\* the first mention of the inventory, in text order, that none of them used
FirstUnusedMention(k) ==
    LET all == ExtractAmounts(ret.text)
        free == {i \in DOMAIN all : all[i].tok \notin UsedBefore(k)}
    IN  IF free = {} THEN <<>>
        ELSE <<all[CHOOSE i \in free : \A j \in free : i <= j].tok>>

\* C19: a segment without a local amount is given the first mention of the
\* inventory that no earlier segment has used when it has a spending verb,
\* and no amount when it has none.
C19_ClaimsFirstUnusedMention ==
    ret.op = "analyze" =>
        \A k \in DOMAIN ret.run.assigned :
            ~ret.run.assigned[k].local =>
                ret.run.assigned[k].mention =
                    (IF IndicatesSpending(SegmentTextAt(ret.run.assigned[k].at))
                     THEN FirstUnusedMention(k) ELSE <<>>)

\* what the connector split and the amount split leave of text t
StrategiesLeave(t) ==
    IF Len(LongEnough(ConnectorPieces(t, 1, 1))) <= 1 /\ Len(AmountEnds(t, 1)) > 1
    THEN LongEnough(AmountPieces(t, AmountEnds(t, 1), 1))
    ELSE LongEnough(ConnectorPieces(t, 1, 1))

\* C21: when the two strategies leave at most one segment, split returns the
\* whole text as its only segment; a single segment returned is always the
\* whole text.
C21_SingleSegmentIsWholeText ==
    ret.op = "split" =>
        /\ Len(StrategiesLeave(ret.text)) <= 1 =>
              ret.value = <<[text |-> ret.text, at |-> 1]>>
        /\ Len(ret.value) = 1 => ret.value[1].text = ret.text

\* the strategies left one piece, shorter than the text, and the segment
\* returned holds the connector and the short piece they had discarded
C21_DiscardedPartsReturned ==
    /\ ret.op = "split"
    /\ Len(StrategiesLeave(ret.text)) = 1
    /\ Len(StrategiesLeave(ret.text)[1].text) < Len(ret.text)
    /\ \E i \in DOMAIN ret.text : IsConnector(ret.text[i].w)
    /\ ret.value = <<[text |-> ret.text, at |-> 1]>>

\* the text cut after every token of ends but the last: one piece per token
\* of ends, from the token after the cut before it up to its own cut, the
\* last one up to the end of the text
CutAfterAllButLast(t, ends) ==
    [j \in 1..Len(ends) |->
        [text |-> Piece(t, IF j = 1 THEN 1 ELSE ends[j - 1] + 1,
                           IF j = Len(ends) THEN Len(t) ELSE ends[j]),
         at |-> IF j = 1 THEN 1 ELSE ends[j - 1] + 1]]

\* the connector split leaves at most one segment of the text just split,
\* which holds two or more amounts followed by the currency word
AmountSplitApplies ==
    /\ ret.op = "split"
    /\ Len(LongEnough(ConnectorPieces(ret.text, 1, 1))) <= 1
    /\ Len(AmountEnds(ret.text, 1)) >= 2

\* the pieces of at least 6 characters
LongPieces(pieces) == SelectSeq(pieces, LAMBDA s : TextLen(s.text) >= 6)

\* C22 as stated: when the amount split applies, the text is cut after every
\* amount but the last and split returns the pieces of at least 6
\* characters.
C22_ReturnsLongPieces ==
    AmountSplitApplies =>
        /\ AmountPieces(ret.text, AmountEnds(ret.text, 1), 1)
              = CutAfterAllButLast(ret.text, AmountEnds(ret.text, 1))
        /\ ret.value = LongPieces(CutAfterAllButLast(ret.text, AmountEnds(ret.text, 1)))

\* C22 as the code has it: split returns the pieces of at least 6 characters
\* when two or more pieces have them, and the whole text otherwise.
C22_LongPiecesOrWholeText ==
    AmountSplitApplies =>
        /\ AmountPieces(ret.text, AmountEnds(ret.text, 1), 1)
              = CutAfterAllButLast(ret.text, AmountEnds(ret.text, 1))
        /\ ret.value =
              (IF Len(LongPieces(CutAfterAllButLast(ret.text, AmountEnds(ret.text, 1)))) >= 2
               THEN LongPieces(CutAfterAllButLast(ret.text, AmountEnds(ret.text, 1)))
               ELSE <<[text |-> ret.text, at |-> 1]>>)

\* a text with a connector and two amounts: the connector split left one
\* segment and split returned the two pieces of the amount split
C22_TwoPiecesAfterConnector ==
    /\ AmountSplitApplies
    /\ \E i \in DOMAIN ret.text : IsConnector(ret.text[i].w)
    /\ Len(ret.value) = 2
    /\ ret.value[2].at = AmountEnds(ret.text, 1)[1] + 1

(***************************************************************************)
(* C23.  The list extract returns is sorted by position, holds at most one *)
(* amount per bucket of BucketWidth characters, keeps of every bucket the  *)
(* candidate that comes first in position order, and holds only values     *)
(* above zero.                                                             *)
(***************************************************************************)
\* every candidate the three scans of extract produce for the text
Candidates(text) ==
    LET t == Normalize(text)
    IN  WordCandidates(t, 1) \o CurrencyCandidates(t, 1) \o NumberCandidates(t, 1)

Bucket(a) == a.pos \div BucketWidth

FirstOfBuckets(out, cands) ==
    /\ \A i, j \in 1..Len(out) : i < j => out[i].pos <= out[j].pos
    /\ \A i, j \in 1..Len(out) : i # j => Bucket(out[i]) # Bucket(out[j])
    /\ \A i \in 1..Len(out) : out[i].value > 0
    /\ \A i \in 1..Len(out) : \E k \in 1..Len(cands) : cands[k] = out[i]
    /\ \A k \in 1..Len(cands) :
          \E i \in 1..Len(out) :
              Bucket(out[i]) = Bucket(cands[k]) /\ out[i].pos <= cands[k].pos

C23_SortedOnePerBucket ==
    ret.op = "extract" => FirstOfBuckets(ret.value, Candidates(ret.text))

\* a later word of a bucket is dropped and two buckets are returned
C23_LaterOfBucketDropped ==
    /\ ret.op = "extract"
    /\ Len(ret.value) >= 2
    /\ \E k \in 1..Len(Candidates(ret.text)) :
          \E i \in 1..Len(ret.value) :
              /\ Bucket(ret.value[i]) = Bucket(Candidates(ret.text)[k])
              /\ ret.value[i].pos < Candidates(ret.text)[k].pos

(***************************************************************************)
(* C24.  Every whitespace-separated token whose residual is a word of the  *)
(* number-word dictionary gives a candidate with the value of the word at  *)
(* the offset where the token starts in the normalized text; a text that   *)
(* is one dictionary word gives its value at offset 0.                     *)
(***************************************************************************)
\* token i is a whitespace-separated token with a dictionary residual
IsNumberToken(t, i) ==
    /\ t[i].w # "blank"
    /\ BoundaryBefore(t, i) /\ BoundaryAfter(t, i)
    /\ IsNumberWord(Residual(t[i].w))

C24_WordAtTokenOffset ==
    ret.op = "extract" =>
        LET t == Normalize(ret.text)
            cands == Candidates(ret.text)
        IN  \A i \in 1..Len(t) :
                IsNumberToken(t, i) =>
                    \E k \in 1..Len(cands) :
                        /\ cands[k].tok = i
                        /\ cands[k].value = NumberWordValue(Residual(t[i].w))
                        /\ cands[k].pos = PosOf(t, i)

(***************************************************************************)
(* C25.  When no special case applies, classify returns the first category *)
(* in table order whose place list matches the supplied merchant, without  *)
(* consulting the keywords; without such a category, the first category in *)
(* table order with a keyword in the normalized segment; otherwise the     *)
(* catch-all.  The result is always a category of the table or the         *)
(* catch-all.                                                              *)
(***************************************************************************)
\* one of the two special-case tests of classify succeeds on the segment
SpecialCaseApplies(t) ==
    \E i \in DOMAIN t : Normalize(t)[i].w \in {"tazkara", "qahwa", "kafeh"}

\* category number c of the table lists the merchant
PlaceMatches(c, place) ==
    place # <<>> /\ place[1] \in CategoryPlaces(Categories[c])

\* category number c of the table has a keyword in the normalized segment
KeywordMatches(c, t) ==
    \E i \in DOMAIN t : Normalize(t)[i].w \in CategoryKeywords(Categories[c])

C25_PlaceThenKeywordThenOther ==
    ret.op = "classify" =>
        /\ ret.value \in {Categories[c] : c \in DOMAIN Categories} \cup {"other"}
        /\ ~SpecialCaseApplies(ret.text) =>
              /\ \A c \in DOMAIN Categories :
                    (/\ PlaceMatches(c, input.place)
                     /\ \A d \in 1..(c - 1) : ~PlaceMatches(d, input.place))
                    => ret.value = Categories[c]
              /\ \A c \in DOMAIN Categories :
                    (/\ \A d \in DOMAIN Categories : ~PlaceMatches(d, input.place)
                     /\ KeywordMatches(c, ret.text)
                     /\ \A d \in 1..(c - 1) : ~KeywordMatches(d, ret.text))
                    => ret.value = Categories[c]
              /\ (\A d \in DOMAIN Categories :
                      ~PlaceMatches(d, input.place) /\ ~KeywordMatches(d, ret.text))
                 => ret.value = "other"

\* a merchant listed by two categories decides against the keyword of a third
C25_MerchantBeatsKeyword ==
    /\ ret.op = "classify"
    /\ ~SpecialCaseApplies(ret.text)
    /\ PlaceMatches(1, input.place) /\ PlaceMatches(3, input.place)
    /\ KeywordMatches(5, ret.text)
    /\ \A d \in 1..4 : ~KeywordMatches(d, ret.text)
    /\ ret.value = "food"

(***************************************************************************)
(* C26.  Every set first removes the entries that are expired at the time  *)
(* of the call and only then applies the capacity check: a live entry of   *)
(* another key is lost only when the live entries alone reach max_size,    *)
(* and after the set the store holds no entry that was expired when the    *)
(* set began.                                                              *)
(***************************************************************************)
Entries(c) == {c[i] : i \in 1..Len(c)}

\* the entries of c that are not expired at time t
LiveEntries(c, t) == {e \in Entries(c) : ~(t > e.expires_at)}

\* the step is a set of key k: cache.set, or the set of the wrapper
IsSetStep(r) == r.op = "set" \/ (r.op = "analyze" /\ r.stored)

C26_SweepBeforeCapacity ==
    [][IsSetStep(ret') =>
          LET live == LiveEntries(cache, now)
              lost == {e \in live : e.key # ret'.key /\ e \notin Entries(cache')}
          IN  /\ \A e \in Entries(cache') : e.key # ret'.key => e \in live
              /\ \A e \in Entries(cache') : e.key = ret'.key => e.created_at = now
              /\ ret'.expired \subseteq {e.key : e \in Entries(cache) \ live}
              /\ lost # {} => Cardinality(live) >= max_size]_vars

\* a full store with an expired entry: the sweep makes room and the set
\* evicts nothing
C26_SweepMadeRoom ==
    /\ ret.op = "set"
    /\ max_size = MaxCacheSize
    /\ ret.expired # {}
    /\ ret.n + Cardinality(ret.expired) >= max_size
    /\ ret.n < max_size
    /\ ret.evicted = {}
    /\ Len(cache) = max_size

(***************************************************************************)
(* C27.  An analyze call that fails with a ValidationError or with an      *)
(* NLPProcessingError writes no entry to the cache, only results of        *)
(* analyses that succeeded are stored, and so a later call with the same   *)
(* input runs the gate and the pipeline again.                             *)
(***************************************************************************)
\* the call just made was made while no result computed for its input was
\* stored
CalledWithoutResult ==
    /\ ret.op = "analyze"
    /\ ~(Stored # <<>> /\ Stored[1].by = <<ThisCall>>)

C27_LaterCallRunsAgain ==
    (CalledWithoutResult /\ ThisCall \in input) => ret.ran

\* C27, first part: a failing call adds nothing to the store, and what the
\* store holds for an analysis key is the result of a call that succeeded
C27_FailureStoresNothing ==
    [][(ret'.op = "analyze"
        /\ ret'.outcome \in {"ValidationError", "NLPProcessingError"}) =>
          /\ ~ret'.stored
          /\ written' = written
          /\ Entries(cache') \subseteq Entries(cache)]_vars

(***************************************************************************)
(* C28.  get on a live key changes only the last_accessed time of that     *)
(* entry: its value, created_at and expires_at, every other entry and the  *)
(* order of the entries are left as they were.                             *)
(***************************************************************************)
\* the step read key k with cache.get: a get, or the lookup of the wrapper
IsGetStep(r) == r.op = "get" \/ r.op = "analyze"

\* k has an entry in c that is not expired at time t
IsLiveKey(c, k, t) == \E i \in 1..Len(c) : c[i].key = k /\ ~(t > c[i].expires_at)

C28_GetTouchesOnlyLastAccessed ==
    [][(IsGetStep(ret') /\ IsLiveKey(cache, ret'.key, now)) =>
          /\ Len(cache') = Len(cache)
          /\ \A i \in 1..Len(cache) :
                IF cache[i].key = ret'.key
                THEN /\ cache'[i].key = cache[i].key
                     /\ cache'[i].value = cache[i].value
                     /\ cache'[i].created_at = cache[i].created_at
                     /\ cache'[i].expires_at = cache[i].expires_at
                     /\ cache'[i].last_accessed = now
                ELSE cache'[i] = cache[i]]_vars

\* an entry read after it was created, next to another entry
C28_ReadLaterThanCreated ==
    /\ ret.op = "get"
    /\ ret.value # None
    /\ Len(cache) = 2
    /\ EntryOf(cache, ret.key).last_accessed = now
    /\ EntryOf(cache, ret.key).created_at < now
    /\ EntryOf(cache, ret.key).expires_at = now

(***************************************************************************)
(* C29.  set applies the capacity eviction whenever the store holds at     *)
(* least max_size entries, also when the key being set is present:         *)
(* overwriting a key of a full store removes the max(1, n div 10) oldest   *)
(* entries, so the store can shrink on an overwrite and other live keys    *)
(* can be lost.                                                            *)
(***************************************************************************)
\* the step overwrites a live key of a store whose live entries reach
\* max_size
OverwritesInFullStore(r) ==
    /\ r.op = "set"
    /\ max_size >= 1
    /\ IsLiveKey(cache, r.key, now)
    /\ Cardinality(LiveEntries(cache, now)) >= max_size

C29_OverwriteEvicts ==
    [][OverwritesInFullStore(ret') =>
          LET live == LiveEntries(cache, now)
              n == Cardinality(live)
              gone == {e \in live : e.key \in {x.key : x \in ret'.evicted}}
          IN  /\ Cardinality(gone) = (IF n \div 10 >= 1 THEN n \div 10 ELSE 1)
              /\ \A e \in gone, f \in live \ gone : e.created_at <= f.created_at
              /\ CacheKeys(cache') =
                     ({f.key : f \in live \ gone}) \cup {ret'.key}
              /\ Len(cache') <= n
              /\ (n \div 10 >= 2 \/ ret'.key \notin {e.key : e \in gone})
                     => Len(cache') < n]_vars

\* the key was overwritten in place and two other keys were lost
C29_OverwriteShrinksStore ==
    /\ ret.op = "set"
    /\ ret.key = EvictKey(1)
    /\ ret.n = EvictMaxSize
    /\ Cardinality(ret.evicted) = 2
    /\ ret.key \notin {x.key : x \in ret.evicted}
    /\ Len(cache) = EvictMaxSize - 2
    /\ EntryOf(cache, ret.key).created_at = now

(***************************************************************************)
(* C30.  The rate limiter admits a request of a client only if fewer than  *)
(* limit requests of that client, over all endpoints, were admitted in the *)
(* window seconds before it; so no client has more than limit admitted     *)
(* requests in any interval of window seconds, and a rejected request is   *)
(* not recorded and leaves the state of the limiter unchanged.             *)
(***************************************************************************)
\* the calls before call i that admitted a request of the same client less
\* than RateWindow seconds earlier
AdmittedBefore(i) ==
    {j \in 1..(i - 1) :
        /\ input[j].client = input[i].client
        /\ input[j].admitted
        /\ input[i].at - input[j].at < RateWindow}

\* the admitted requests of client c with a limit of at most l made in the
\* RateWindow seconds that start at time t
AdmittedIn(c, l, t) ==
    {j \in 1..Len(input) :
        /\ input[j].client = c
        /\ input[j].admitted
        /\ input[j].limit <= l
        /\ input[j].at >= t /\ input[j].at < t + RateWindow}

\* the times of the admitted requests of c that were less than RateWindow
\* seconds old when the last of them was admitted
RecordedFor(c) ==
    LET adm == SelectSeq(input, LAMBDA e : e.client = c /\ e.admitted)
        recent == SelectSeq(adm, LAMBDA e : adm[Len(adm)].at - e.at < RateWindow)
    IN  [i \in 1..Len(recent) |-> recent[i].at]

C30_AdmitsBelowLimit ==
    /\ \A i \in 1..Len(input) :
          input[i].admitted <=> Cardinality(AdmittedBefore(i)) < input[i].limit
    /\ \A c \in Clients, l \in 1..MaxLimit, i \in 1..Len(input) :
          Cardinality(AdmittedIn(c, l, input[i].at)) <= l
    /\ \A c \in Clients : requests[c] = RecordedFor(c)

\* a client is admitted, rejected within the window and admitted again when
\* the window has passed
C30_RejectedThenAdmitted ==
    /\ Len(input) = 3
    /\ \A i \in 1..3 : input[i].client = "ip1" /\ input[i].limit = 1
    /\ input[1].admitted /\ ~input[2].admitted /\ input[3].admitted
    /\ input[3].at - input[1].at = RateWindow
    /\ requests["ip1"] = <<input[3].at>>

====
